---------------------------- MODULE Spec2Model ----------------------------
(***************************************************************************)
(* Model of the real-time telemetry viewer                                 *)
(* (src/RealTimeAnimation/viewer/graph.js).  The file holds two closures:  *)
(* the 2D strip-chart view (lines 1-449) and the 3D scene (lines 453-1335).*)
(* Each closure has its own nodeCount; the 3D closure's names carry the    *)
(* suffix 3D here.                                                         *)
(*                                                                         *)
(* Numbers.  Every time value (timestamps, sample times, the display       *)
(* window, the window control's value) is an integer number of             *)
(* milliseconds; the source holds the same quantities as floating-point    *)
(* seconds.  A value that may be null / non-finite is an option: <<>> for  *)
(* null or a non-finite number, <<v>> for the finite number v.  A rate is  *)
(* the exact fraction num/den in Hz.  Channel index i of the source        *)
(* (0-based) is position i+1 of the sequences below.                       *)
(***************************************************************************)
EXTENDS Integers, Sequences, FiniteSets

VARIABLES
    sampleRateEstimator, \* graph.js:18  the estimator record
    windowSec,           \* graph.js:122 display window (ms)
    winElValue,          \* graph.js:4   value held by the window control (ms)
    nodeCount,           \* graph.js:84  2D channel count
    rowsEls,             \* graph.js:85  chart rows; rowsEls[i] = row i is displayed
    visibleSet,          \* graph.js:101 visible channel indices (0-based)
    dataByNode,          \* graph.js:140 per-channel sample buffers
    waveLen,             \* graph.js:173 length of the 2D amplitudes/freqs/phases arrays
    t0Payload,           \* graph.js:179 source-timestamp origin (option)
    externalActive,      \* graph.js:180
    lastExternalSec,     \* graph.js:181
    perfNow,             \* performance.now() (ms)
    clock0,              \* graph.js:177 local-clock origin (ms)
    modal,               \* graph.js:398 the channel dialog's checkboxes
    chart,               \* graph.js:318 what the last 2D render frame read
    task,                \* the ingestion call on the stack, if any (option)
    running2D,           \* graph.js:132 running flag of the 2D view
    renderPending,       \* graph.js:391 scheduled callbacks of render
    nodeCount3D,         \* graph.js:868 3D channel count
    nodesLen,            \* graph.js:871 length of nodes/labels/nodeMaterials/basePositions
    waveLen3D,           \* graph.js:1139 length of the 3D amplitudes/freqs/phases arrays
    latestAmplitudes,    \* graph.js:1152
    hasLiveData,         \* graph.js:1153
    lastUpdateMs,        \* graph.js:1154
    layout,              \* graph.js:621 config.display.layout
    instancedCount,      \* graph.js:792 instance count of instancedNodes
    surfaceLen,          \* graph.js:773 length of the surface's amplitudes uniform
    trailCount,          \* graph.js:699 trailSystem.count
    basePositions,       \* graph.js:875 origin of each channel's base position
    drawn,               \* graph.js:1234 what the last 3D frame drew
    running3D,           \* graph.js:962 running flag of the 3D view
    trails,              \* graph.js:701 trailSystem.trails
    csvUi,               \* graph.js:1039 calibration loads in progress, last warning
    animatePending,      \* graph.js:1316 scheduled callbacks of animate
    producer,            \* the telemetry source feeding pushGraphBatch (environment)
    search,              \* part_000: the search page, its calls of performSearchWithRetry
    upload               \* script.js: the translator's upload page

ui2D == <<modal, chart, task, running2D, renderPending>>
vars2D == <<sampleRateEstimator, windowSec, winElValue, nodeCount, rowsEls,
            visibleSet, dataByNode, waveLen, t0Payload, externalActive,
            lastExternalSec, clock0, ui2D>>
scene3D == <<basePositions, drawn, running3D, trails, csvUi, animatePending>>
vars3D == <<nodeCount3D, nodesLen, waveLen3D, latestAmplitudes, hasLiveData,
            lastUpdateMs, layout, instancedCount, surfaceLen, trailCount,
            scene3D>>
progVars == <<vars2D, vars3D, perfNow>>
pages == <<search, upload>>
vars == <<progVars, producer, pages>>

-----------------------------------------------------------------------------
(* Options and small helpers *)

None == <<>>
Some(v) == <<v>>
IsFinite(x) == x # None
Val(x) == x[1]
Min(a, b) == IF a <= b THEN a ELSE b
Max(a, b) == IF a >= b THEN a ELSE b
Abs(a) == IF a >= 0 THEN a ELSE -a
Last(s) == s[Len(s)]

-----------------------------------------------------------------------------
(* Program constants *)

maxSamplesPerNode == 300
InitNodeCount == 15
MaxIntervalMs == 10000
HistoryLen == 20
MinIntervals == 10
MinWindowMs == 500
MaxWindowMs == 60000
AdjustThresholdMs == 1000
InitRecommendedMs == 5000
TrailLength == 20

-----------------------------------------------------------------------------
(* Time-Window Store: pushSample *)

RECURSIVE DropOld_AtCutoffToo(_, _)
\* Mutant of DropOld: a sample exactly at the cutoff is evicted too
DropOld_AtCutoffToo(arr, cutoff) ==
    IF arr # <<>> /\ Head(arr).t <= cutoff
    THEN DropOld_AtCutoffToo(Tail(arr), cutoff)
    ELSE arr

RECURSIVE DropOld(_, _)
\* while (arr.length && arr[0].t < cutoff) arr.shift()
DropOld(arr, cutoff) ==
    IF arr # <<>> /\ Head(arr).t < cutoff THEN DropOld(Tail(arr), cutoff) ELSE arr

\* Mutant of TrimCap: the splice keeps one sample too many
TrimCap_OffByOne(arr, maxSamples) ==
    IF Len(arr) > maxSamples + 1
    THEN SubSeq(arr, Len(arr) - maxSamples, Len(arr))
    ELSE arr

\* if (arr.length > maxSamples) arr.splice(0, arr.length - maxSamples)
TrimCap(arr, maxSamples) ==
    IF Len(arr) > maxSamples
    THEN SubSeq(arr, Len(arr) - maxSamples + 1, Len(arr))
    ELSE arr

\* Mutant of pushSample: the time-window eviction loop is missing
pushSample_NoWindowEviction(arr, t, y, org, win) ==
    TrimCap(Append(arr, [t |-> t, y |-> y, org |-> org]), maxSamplesPerNode * 2)

\* pushSample on one channel's array.  org records which branch computed t
\* ("payload": relative to t0Payload, "local": relative to clock0); it is a
\* history field that no operation reads.
pushSample(arr, t, y, org, win) ==
    TrimCap(DropOld(Append(arr, [t |-> t, y |-> y, org |-> org]), t - win),
            maxSamplesPerNode * 2)

-----------------------------------------------------------------------------
(* Sample-Rate Estimator: estimateSampleRate *)

RECURSIVE Insert(_, _)
Insert(x, sorted) ==
    IF sorted = <<>> THEN <<x>>
    ELSE IF x <= Head(sorted) THEN <<x>> \o sorted
    ELSE <<Head(sorted)>> \o Insert(x, Tail(sorted))

RECURSIVE SortAsc(_)
\* [...sampleTimes].sort((a,b)=>a-b)
SortAsc(s) == IF s = <<>> THEN <<>> ELSE Insert(Head(s), SortAsc(Tail(s)))

\* Mutant of Median: the smallest interval instead of the middle one
Median_Smallest(times) == SortAsc(times)[1]

\* sorted[Math.floor(sorted.length/2)]
Median(times) == SortAsc(times)[(Len(times) \div 2) + 1]

\* 1.0 / median, median in ms: the fraction 1000/median Hz
RateOf(median) == [num |-> 1000, den |-> median]

\* target / estimatedRate, in ms
SamplesOverRate(target, rate) == (target * rate.den * 1000) \div rate.num

\* Math.min(60, Math.max(0.5, x))
ClampWindow(x) == Min(MaxWindowMs, Max(MinWindowMs, x))

\* Math.round(x * 2) / 2 : the nearest half second, halves rounded up
RoundHalfSec(x) == 500 * ((x + 250) \div 500)

Recommend(target, rate) == RoundHalfSec(ClampWindow(SamplesOverRate(target, rate)))

\* Mutant of ShouldAutoAdjust: the one-shot flag is not consulted
ShouldAutoAdjust_IgnoresFlag(est, win, rec) ==
    Abs(win - rec) > AdjustThresholdMs /\ win > rec

\* Mutant of ShouldAutoAdjust: the shrink-only condition is missing
ShouldAutoAdjust_AlsoGrows(est, win, rec) ==
    ~est.autoAdjusted /\ Abs(win - rec) > AdjustThresholdMs

\* const shouldAdjust = Math.abs(windowSec - recommendedWindow) > 1.0
\* !autoAdjusted && shouldAdjust && windowSec > recommendedWindow
ShouldAutoAdjust(est, win, rec) ==
    /\ ~est.autoAdjusted
    /\ Abs(win - rec) > AdjustThresholdMs
    /\ win > rec

\* Mutant of PushInterval: a full history drops the newest interval
PushInterval_DropsNewest(times, interval) ==
    IF Len(times) >= HistoryLen THEN times ELSE Append(times, interval)

\* sampleTimes.push(interval); if (length > 20) shift()
PushInterval(times, interval) ==
    LET t1 == Append(times, interval)
    IN IF Len(t1) > HistoryLen THEN Tail(t1) ELSE t1

\* The flag value stored by an automatic adjustment (line 57)
AfterAutoAdjust == TRUE

\* estimateSampleRate(timestamp): the estimator, the display window and the
\* window control's value after the call.  timestamp is an option.
estimateSampleRate(est, win, winVal, timestamp) ==
    LET same == [est |-> est, windowSec |-> win, winElValue |-> winVal]
    IN
    IF ~IsFinite(timestamp) THEN same
    ELSE
      LET now == Val(timestamp)
          seen == [est EXCEPT !.lastTime = Some(now)]
      IN
      IF est.lastTime = None
      THEN [same EXCEPT !.est = seen]
      ELSE
        LET interval == now - Val(est.lastTime)
        IN
        IF ~(interval > 0 /\ interval < MaxIntervalMs)
        THEN [same EXCEPT !.est = seen]
        ELSE
          LET times == PushInterval(est.sampleTimes, interval)
              kept == [seen EXCEPT !.sampleTimes = times]
          IN
          IF Len(times) < MinIntervals
          THEN [same EXCEPT !.est = kept]
          ELSE
            LET median == Median(times)
                rate == RateOf(median)
                rec == Recommend(est.maxSamplesPerNode, rate)
                est2 == [kept EXCEPT !.estimatedRate = rate,
                                     !.recommendedWindow = rec]
            IN
            IF median <= 0 THEN [same EXCEPT !.est = kept]
            ELSE IF ShouldAutoAdjust(est, win, rec)
            THEN [est |-> [est2 EXCEPT !.autoAdjusted = AfterAutoAdjust],
                  windowSec |-> rec,
                  winElValue |-> rec]
            ELSE [same EXCEPT !.est = est2]

\* Mutant of WindowAccepts: no upper limit
WindowAccepts_NoUpperLimit(val) == val >= MinWindowMs

\* winEl 'input' handler body for the entered value val (ms)
WindowAccepts(val) == val >= MinWindowMs /\ val <= MaxWindowMs

-----------------------------------------------------------------------------
(* Channel Capacity Manager (2D): ensureNodeCapacity *)

\* The 2D state touched by ingestion, threaded through the handlers:
\* s = [nodeCount, rowsEls, visibleSet, dataByNode]

\* applyVisibility(): rowsEls[i].row.style.display
applyVisibility(n, vis) == [i \in 1..n |-> (i - 1) \in vis]

\* Mutant of ensureNodeCapacity: growing allocates every buffer anew
ensureNodeCapacity_NewBuffers(s, n) ==
    IF n <= s.nodeCount THEN s
    ELSE
      LET vis == s.visibleSet \cup (s.nodeCount .. (n - 1))
      IN [nodeCount |-> n,
          rowsEls |-> applyVisibility(n, vis),
          visibleSet |-> vis,
          dataByNode |-> [i \in 1..n |-> <<>>]]

\* Mutant of ensureNodeCapacity: the count follows the payload's width down too
ensureNodeCapacity_FollowsWidth(s, n) ==
    LET vis == s.visibleSet \cup (s.nodeCount .. (n - 1))
    IN [nodeCount |-> n,
        rowsEls |-> applyVisibility(n, vis),
        visibleSet |-> vis,
        dataByNode |-> [i \in 1..n |->
                          IF i <= s.nodeCount THEN s.dataByNode[i] ELSE <<>>]]

ensureNodeCapacity(s, n) ==
    IF n <= s.nodeCount THEN s
    ELSE
      LET vis == s.visibleSet \cup (s.nodeCount .. (n - 1))
      IN [nodeCount |-> n,
          rowsEls |-> applyVisibility(n, vis),
          visibleSet |-> vis,
          dataByNode |-> [i \in 1..n |->
                            IF i <= s.nodeCount THEN s.dataByNode[i] ELSE <<>>]]

\* Mutant of pushVector: only visible channels are written
pushVector_VisibleOnly(s, vec, t, org, win) ==
    [s EXCEPT !.dataByNode =
        [i \in 1..Len(s.dataByNode) |->
            IF i <= Min(s.nodeCount, Len(vec)) /\ IsFinite(vec[i])
               /\ (i - 1) \in s.visibleSet
            THEN pushSample(s.dataByNode[i], t, Val(vec[i]), org, win)
            ELSE s.dataByNode[i]] \o <<>>]

\* Mutant of pushVector: the loop ends at the first non-finite entry
pushVector_StopsAtNaN(s, vec, t, org, win) ==
    [s EXCEPT !.dataByNode =
        [i \in 1..Len(s.dataByNode) |->
            IF i <= Min(s.nodeCount, Len(vec))
               /\ \A j \in 1..i : IsFinite(vec[j])
            THEN pushSample(s.dataByNode[i], t, Val(vec[i]), org, win)
            ELSE s.dataByNode[i]] \o <<>>]

\* for (i < Math.min(nodeCount, vec.length)) { y = Number(vec[i]);
\*    if (Number.isFinite(y)) pushSample(i, t, y) }
\* The channels are independent, so the loop is a map over the channels.
pushVector(s, vec, t, org, win) ==
    [s EXCEPT !.dataByNode =
        [i \in 1..Len(s.dataByNode) |->
            IF i <= Min(s.nodeCount, Len(vec)) /\ IsFinite(vec[i])
            THEN pushSample(s.dataByNode[i], t, Val(vec[i]), org, win)
            ELSE s.dataByNode[i]] \o <<>>]

Store2D == [nodeCount |-> nodeCount, rowsEls |-> rowsEls,
            visibleSet |-> visibleSet, dataByNode |-> dataByNode]

-----------------------------------------------------------------------------
(* Ingestion entry points of the 2D view *)

\* A single payload is [shape, timestamp, vec]: shape "null" is a missing
\* payload, "nodes" / "amps" say which field is an array (vec), "none" that
\* neither is; timestamp is an option.
\* A batch payload is [ok, ts, frames]: ok says that ts and frames are both
\* arrays; ts is a sequence of options, frames a sequence of vectors.

\* Line 192-197: the sample time and the origin it is relative to
SingleOrigin(payload) ==
    IF IsFinite(payload.timestamp) THEN "payload" ELSE "local"

SingleT0(payload) ==
    IF IsFinite(payload.timestamp) /\ t0Payload = None
    THEN payload.timestamp ELSE t0Payload

SingleT(payload) ==
    IF IsFinite(payload.timestamp)
    THEN Val(payload.timestamp) - Val(SingleT0(payload))
    ELSE perfNow - clock0

\* window.pushGraphSamples(payload)
pushGraphSamples(payload) ==
    IF payload.shape = "null"
    THEN UNCHANGED progVars
    ELSE
      LET t == SingleT(payload)
          s == IF payload.shape \in {"nodes", "amps"}
               THEN pushVector(ensureNodeCapacity(Store2D, Len(payload.vec)),
                               payload.vec, t, SingleOrigin(payload), windowSec)
               ELSE Store2D
      IN
      /\ t0Payload' = SingleT0(payload)
      /\ nodeCount' = s.nodeCount
      /\ rowsEls' = s.rowsEls
      /\ visibleSet' = s.visibleSet
      /\ dataByNode' = s.dataByNode
      /\ externalActive' = TRUE
      /\ lastExternalSec' = t
      /\ UNCHANGED <<sampleRateEstimator, windowSec, winElValue, waveLen,
                     clock0, perfNow, ui2D, vars3D>>

\* Line 231-233: the origin after the batch's first timestamp was looked at
BatchT0(payload, nFrames) ==
    IF t0Payload = None /\ nFrames > 0 /\ IsFinite(payload.ts[1])
    THEN payload.ts[1] ELSE t0Payload

\* Line 237: tRel and the origin it is relative to
BatchOrigin(t0) == IF t0 # None THEN "payload" ELSE "local"

BatchTRel(tAbs, t0) ==
    IF t0 # None THEN tAbs - Val(t0) ELSE perfNow - clock0

RECURSIVE batchFrames(_, _, _, _, _, _)
\* Line 234-244: frames k..nFrames of the batch, in index order. The loop
\* is unrolled by halves (frames k..mid, then mid+1..nFrames on the result)
\* so that a long batch is evaluated without deep nesting; the channel count
\* never shrinks inside the loop, so the second half always runs.
batchFrames(s, payload, k, nFrames, t0, win) ==
    IF k > nFrames THEN s
    ELSE IF k = nFrames
    THEN
      IF ~IsFinite(payload.ts[k]) THEN s
      ELSE
        LET amps == payload.frames[k]
        IN pushVector(ensureNodeCapacity(s, Len(amps)), amps,
                      BatchTRel(Val(payload.ts[k]), t0), BatchOrigin(t0), win)
    ELSE
      LET mid == (k + nFrames) \div 2
          s1 == batchFrames(s, payload, k, mid, t0, win)
      IN IF s1.nodeCount >= s.nodeCount
         THEN batchFrames(s1, payload, mid + 1, nFrames, t0, win)
         ELSE s1

\* window.pushGraphBatch(payload)
pushGraphBatch(payload) ==
    IF ~payload.ok
    THEN UNCHANGED progVars
    ELSE
      LET nFrames == Min(Len(payload.ts), Len(payload.frames))
          e == IF nFrames > 0
               THEN estimateSampleRate(sampleRateEstimator, windowSec,
                                       winElValue, payload.ts[1])
               ELSE [est |-> sampleRateEstimator, windowSec |-> windowSec,
                     winElValue |-> winElValue]
          t0 == BatchT0(payload, nFrames)
          s == batchFrames(Store2D, payload, 1, nFrames, t0, e.windowSec)
      IN
      /\ sampleRateEstimator' = e.est
      /\ windowSec' = e.windowSec
      /\ winElValue' = e.winElValue
      /\ t0Payload' = t0
      /\ nodeCount' = s.nodeCount
      /\ rowsEls' = s.rowsEls
      /\ visibleSet' = s.visibleSet
      /\ dataByNode' = s.dataByNode
      /\ externalActive' = TRUE
      /\ lastExternalSec' = IF s.dataByNode[1] # <<>>
                            THEN Last(s.dataByNode[1]).t
                            ELSE lastExternalSec
      /\ UNCHANGED <<waveLen, clock0, perfNow, ui2D, vars3D>>

-----------------------------------------------------------------------------
(* The ingestion handlers and the 2D render frame, step by step.  The      *)
(* handlers above are whole calls; here the position inside a call is      *)
(* state (task), so that a callback running in the middle of a call would  *)
(* be visible.  A callback starts only when no call is on the stack:       *)
(* the handlers contain no await and render is scheduled through           *)
(* requestAnimationFrame (line 391).                                       *)

\* The buffers as the last completed call left them
Committed == IF task = None THEN dataByNode ELSE Val(task).before

taskFrame ==
    UNCHANGED <<waveLen, clock0, perfNow, modal, chart, running2D,
                renderPending, vars3D>>

\* pushGraphBatch, line 221-233: up to the loop over the frames
beginBatch(payload) ==
    /\ task = None /\ payload.ok
    /\ LET nFrames == Min(Len(payload.ts), Len(payload.frames))
           e == IF nFrames > 0
                THEN estimateSampleRate(sampleRateEstimator, windowSec,
                                        winElValue, payload.ts[1])
                ELSE [est |-> sampleRateEstimator, windowSec |-> windowSec,
                      winElValue |-> winElValue]
       IN /\ sampleRateEstimator' = e.est
          /\ windowSec' = e.windowSec
          /\ winElValue' = e.winElValue
          /\ t0Payload' = BatchT0(payload, nFrames)
          /\ task' = Some([kind |-> "batch", payload |-> payload, k |-> 1,
                           n |-> nFrames, before |-> dataByNode])
    /\ UNCHANGED <<nodeCount, rowsEls, visibleSet, dataByNode, externalActive,
                   lastExternalSec>>
    /\ taskFrame

\* pushGraphBatch, line 234-244: one pass of the loop over the frames
stepBatch ==
    /\ task # None /\ Val(task).kind = "batch" /\ Val(task).k <= Val(task).n
    /\ LET c == Val(task)
           s == batchFrames(Store2D, c.payload, c.k, c.k, t0Payload, windowSec)
       IN /\ nodeCount' = s.nodeCount
          /\ rowsEls' = s.rowsEls
          /\ visibleSet' = s.visibleSet
          /\ dataByNode' = s.dataByNode
          /\ task' = Some([c EXCEPT !.k = c.k + 1])
    /\ UNCHANGED <<sampleRateEstimator, windowSec, winElValue, t0Payload,
                   externalActive, lastExternalSec>>
    /\ taskFrame

\* pushGraphBatch, line 245-246: after the loop; the call returns
endBatch ==
    /\ task # None /\ Val(task).kind = "batch" /\ Val(task).k > Val(task).n
    /\ externalActive' = TRUE
    /\ lastExternalSec' = IF dataByNode[1] # <<>>
                          THEN Last(dataByNode[1]).t
                          ELSE lastExternalSec
    /\ task' = None
    /\ UNCHANGED <<sampleRateEstimator, windowSec, winElValue, t0Payload,
                   nodeCount, rowsEls, visibleSet, dataByNode>>
    /\ taskFrame

\* pushGraphSamples, line 189-199: up to the loop over the channels
beginSingle(payload) ==
    /\ task = None /\ payload.shape \in {"nodes", "amps"}
    /\ LET s == ensureNodeCapacity(Store2D, Len(payload.vec))
       IN /\ t0Payload' = SingleT0(payload)
          /\ nodeCount' = s.nodeCount
          /\ rowsEls' = s.rowsEls
          /\ visibleSet' = s.visibleSet
          /\ dataByNode' = s.dataByNode
          /\ task' = Some([kind |-> "single", payload |-> payload, k |-> 1,
                           n |-> Min(s.nodeCount, Len(payload.vec)),
                           t |-> SingleT(payload), before |-> dataByNode])
    /\ UNCHANGED <<sampleRateEstimator, windowSec, winElValue, externalActive,
                   lastExternalSec>>
    /\ taskFrame

\* pushGraphSamples, line 200-203: one pass of the loop over the channels
stepSingle ==
    /\ task # None /\ Val(task).kind = "single" /\ Val(task).k <= Val(task).n
    /\ LET c == Val(task)
           y == c.payload.vec[c.k]
       IN /\ dataByNode' =
                [dataByNode EXCEPT ![c.k] =
                    IF IsFinite(y)
                    THEN pushSample(@, c.t, Val(y), SingleOrigin(c.payload),
                                    windowSec)
                    ELSE @]
          /\ task' = Some([c EXCEPT !.k = c.k + 1])
    /\ UNCHANGED <<sampleRateEstimator, windowSec, winElValue, t0Payload,
                   nodeCount, rowsEls, visibleSet, externalActive,
                   lastExternalSec>>
    /\ taskFrame

\* pushGraphSamples, line 211-212: after the loop; the call returns
endSingle ==
    /\ task # None /\ Val(task).kind = "single" /\ Val(task).k > Val(task).n
    /\ externalActive' = TRUE
    /\ lastExternalSec' = Val(task).t
    /\ task' = None
    /\ UNCHANGED <<sampleRateEstimator, windowSec, winElValue, t0Payload,
                   nodeCount, rowsEls, visibleSet, dataByNode>>
    /\ taskFrame

\* Mutant of afterFrame: the next frame is requested at the end of the try
\* block, so a frame that throws requests none
afterFrame_InsideTry(pending, threw) ==
    IF threw THEN pending ELSE pending + 1

\* finally { requestAnimationFrame(render) } (line 390-392) and
\* finally { requestAnimationFrame(animate) } (line 1315-1317): the number of
\* scheduled callbacks after a frame, pending being the number left when the
\* frame started and threw saying whether its body threw
afterFrame(pending, threw) == pending + 1

\* Line 326-335: the smallest first time and the largest last time of the
\* non-empty buffers; <<>> without data
dataMinTime ==
    LET ts == {dataByNode[i][1].t : i \in {j \in 1..nodeCount : dataByNode[j] # <<>>}}
    IN IF ts = {} THEN None ELSE Some(CHOOSE t \in ts : \A u \in ts : t <= u)

dataMaxTime ==
    LET ts == {Last(dataByNode[i]).t : i \in {j \in 1..nodeCount : dataByNode[j] # <<>>}}
    IN IF ts = {} THEN None ELSE Some(CHOOSE t \in ts : \A u \in ts : t >= u)

\* Line 322-350: the time range of the frame, [xMin, xMax], both in units
\* of half a millisecond (the centre of two times is a half)
xRange ==
    IF dataMinTime # None
    THEN LET lo == Val(dataMinTime)
             hi == Val(dataMaxTime)
         IN IF hi - lo < windowSec
            THEN [xMin |-> Max(0, (lo + hi) - windowSec),
                  xMax |-> (lo + hi) + windowSec]
            ELSE [xMin |-> 2 * Max(lo, hi - windowSec), xMax |-> 2 * hi]
    ELSE LET now == IF externalActive THEN lastExternalSec ELSE perfNow - clock0
         IN [xMin |-> 2 * Max(0, now - windowSec), xMax |-> 2 * now]

\* The fallback Y range -0.02 .. 0.02, in hundredths
FallbackY == 2

\* Line 356-379: what the frame draws in the row of one channel: the Y
\* range (in hundredths of the samples' unit), whether the placeholder
\* text is drawn and whether the line is
rowDrawing(arr) ==
    IF Len(arr) < 2
    THEN [yMin |-> 0 - FallbackY, yMax |-> FallbackY, placeholder |-> TRUE, line |-> FALSE]
    ELSE LET ys == {arr[k].y : k \in 1..Len(arr)}
             lo == CHOOSE y \in ys : \A u \in ys : y <= u
             hi == CHOOSE y \in ys : \A u \in ys : y >= u
         IN IF lo = hi
            THEN [yMin |-> 0 - FallbackY, yMax |-> FallbackY,
                  placeholder |-> FALSE, line |-> TRUE]
            ELSE [yMin |-> 100 * lo - 15 * (hi - lo),
                  yMax |-> 100 * hi + 15 * (hi - lo),
                  placeholder |-> FALSE, line |-> TRUE]

\* A canvas nothing was drawn on
BlankRow == [yMin |-> 0, yMax |-> 0, placeholder |-> FALSE, line |-> FALSE]

\* Line 351-380: the rows after the frame; the canvas of a channel that is
\* not in visibleSet is left as it was
frameRows ==
    [i \in 1..nodeCount |->
        IF (i - 1) \in visibleSet THEN rowDrawing(dataByNode[i])
        ELSE IF i <= Len(chart.rows) THEN chart.rows[i]
        ELSE BlankRow]

\* What the frame leaves on the page: the buffers it drew, the time range
\* and the rows and, if its body threw, the diagnostic area made visible
\* (line 384-388)
renderOutput(threw) ==
    IF threw
    THEN [chart EXCEPT !.error = TRUE]
    ELSE [chart EXCEPT !.data = dataByNode, !.committed = Committed,
                       !.x = Some(xRange), !.rows = frameRows]

\* Mutant of render: the frame empties the buffers it has drawn
render_ConsumesBuffers ==
    /\ task = None
    /\ renderPending >= 1
    /\ \E threw \in BOOLEAN :
          /\ chart' = renderOutput(threw)
          /\ renderPending' = afterFrame(renderPending - 1, threw)
    /\ dataByNode' = [i \in 1..Len(dataByNode) |-> <<>>]
    /\ UNCHANGED <<sampleRateEstimator, windowSec, winElValue, nodeCount,
                   rowsEls, visibleSet, waveLen, t0Payload,
                   externalActive, lastExternalSec, clock0, perfNow, modal,
                   task, running2D, vars3D>>

\* Mutant of render: the frame callback may run in the middle of a call
render_Preempts ==
    /\ renderPending >= 1
    /\ \E threw \in BOOLEAN :
          /\ chart' = renderOutput(threw)
          /\ renderPending' = afterFrame(renderPending - 1, threw)
    /\ UNCHANGED <<sampleRateEstimator, windowSec, winElValue, nodeCount,
                   rowsEls, visibleSet, dataByNode, waveLen, t0Payload,
                   externalActive, lastExternalSec, clock0, perfNow, modal,
                   task, running2D, vars3D>>

\* render(): one frame of the 2D view; it reads the buffers and draws.  The
\* first call (line 395) counts as the first scheduled callback.  The body
\* does not read the running flag.  A body that throws is taken to throw
\* before it has drawn.
render ==
    /\ task = None
    /\ renderPending >= 1
    /\ \E threw \in BOOLEAN :
          /\ chart' = renderOutput(threw)
          /\ renderPending' = afterFrame(renderPending - 1, threw)
    /\ UNCHANGED <<sampleRateEstimator, windowSec, winElValue, nodeCount,
                   rowsEls, visibleSet, dataByNode, waveLen, t0Payload,
                   externalActive, lastExternalSec, clock0, perfNow, modal,
                   task, running2D, vars3D>>

\* toggleEl 'click' of the 2D view: Pause / Resume
toggle2D ==
    /\ running2D' = ~running2D
    /\ UNCHANGED <<sampleRateEstimator, windowSec, winElValue, nodeCount,
                   rowsEls, visibleSet, dataByNode, waveLen, t0Payload,
                   externalActive, lastExternalSec, clock0, perfNow, modal,
                   chart, task, renderPending, vars3D>>

-----------------------------------------------------------------------------
(* Operator controls of the 2D view *)

\* Mutant of winElInput: a manual change does not set the one-shot flag
winElInput_KeepsFlag(val) ==
    /\ winElValue' = val
    /\ windowSec' = (IF WindowAccepts(val) THEN val ELSE windowSec)
    /\ UNCHANGED <<sampleRateEstimator, nodeCount, rowsEls, visibleSet,
                   dataByNode, waveLen, t0Payload, externalActive,
                   lastExternalSec, clock0, perfNow, ui2D, vars3D>>

\* winEl 'input' event with the control holding val
winElInput(val) ==
    /\ winElValue' = val
    /\ IF WindowAccepts(val)
       THEN /\ windowSec' = val
            /\ sampleRateEstimator' =
                 [sampleRateEstimator EXCEPT !.autoAdjusted = TRUE]
       ELSE UNCHANGED <<windowSec, sampleRateEstimator>>
    /\ UNCHANGED <<nodeCount, rowsEls, visibleSet, dataByNode, waveLen,
                   t0Payload, externalActive, lastExternalSec, clock0,
                   perfNow, ui2D, vars3D>>

\* Mutant of clearAllData: clear also forgets the source-clock origin
clearAllData_ResetsOrigin ==
    /\ dataByNode' = [i \in 1..Len(dataByNode) |->
                        IF i <= nodeCount THEN <<>> ELSE dataByNode[i]]
    /\ t0Payload' = None
    /\ UNCHANGED <<sampleRateEstimator, windowSec, winElValue, nodeCount,
                   rowsEls, visibleSet, waveLen, externalActive,
                   lastExternalSec, clock0, perfNow, ui2D, vars3D>>

\* clearAllData(): the clear button
clearAllData ==
    /\ dataByNode' = [i \in 1..Len(dataByNode) |->
                        IF i <= nodeCount THEN <<>> ELSE dataByNode[i]]
    /\ UNCHANGED <<sampleRateEstimator, windowSec, winElValue, nodeCount,
                   rowsEls, visibleSet, waveLen, t0Payload, externalActive,
                   lastExternalSec, clock0, perfNow, ui2D, vars3D>>

\* The 2D state no dialog handler touches
modalFrame ==
    UNCHANGED <<sampleRateEstimator, windowSec, winElValue, nodeCount,
                dataByNode, waveLen, t0Payload, externalActive,
                lastExternalSec, clock0, perfNow, chart, task, running2D,
                renderPending, vars3D>>

\* openModal(): one checkbox per channel, checked iff the channel is visible
openModal ==
    /\ modal' = [open |-> TRUE, count |-> nodeCount,
                 checked |-> {i \in 0..(nodeCount - 1) : i \in visibleSet}]
    /\ UNCHANGED <<rowsEls, visibleSet>>
    /\ modalFrame

\* The operator clicks checkbox i of the dialog (line 407-411)
checkboxClick(i) ==
    /\ modal.open /\ i < modal.count
    /\ modal' = [modal EXCEPT !.checked =
                    IF i \in @ THEN @ \ {i} ELSE @ \cup {i}]
    /\ UNCHANGED <<rowsEls, visibleSet>>
    /\ modalFrame

\* modalClear 'click': uncheck every box
modalClearClick ==
    /\ modal.open
    /\ modal' = [modal EXCEPT !.checked = {}]
    /\ UNCHANGED <<rowsEls, visibleSet>>
    /\ modalFrame

\* modalCancel 'click': closeModal()
modalCancelClick ==
    /\ modal.open
    /\ modal' = [modal EXCEPT !.open = FALSE]
    /\ UNCHANGED <<rowsEls, visibleSet>>
    /\ modalFrame

\* Mutant of modalOkClick: an empty selection is accepted
modalOkClick_AcceptsEmpty ==
    /\ modal.open
    /\ visibleSet' = modal.checked
    /\ rowsEls' = applyVisibility(Len(rowsEls), modal.checked)
    /\ modal' = [modal EXCEPT !.open = FALSE]
    /\ modalFrame

\* modalOk 'click'
modalOkClick ==
    /\ modal.open
    /\ IF modal.checked = {}
       THEN UNCHANGED <<visibleSet, rowsEls, modal>>
       ELSE /\ visibleSet' = modal.checked
            /\ rowsEls' = applyVisibility(Len(rowsEls), modal.checked)
            /\ modal' = [modal EXCEPT !.open = FALSE]
    /\ modalFrame

-----------------------------------------------------------------------------
(* 3D view: capacity, ingestion, layout button *)

RECURSIVE Zeros(_)
Zeros(n) == IF n <= 0 THEN <<>> ELSE <<0>> \o Zeros(n - 1)

\* A position (THREE.Vector3) is [sys, c]: for sys "table" c is the point
\* <<x, y, z>> in render coordinates (mm); for a procedural position sys
\* names the rule ("ring", "grid", "helix", "sphere", "cylinder") and c is
\* <<i, n, 0>>, the channel index and the channel count the rule was
\* evaluated with.  LayoutPoint (below) gives the point a layout's c stands for.
Position(sys, a, b, c) == [sys |-> sys, c |-> <<a, b, c>>]

\* Line 904-916 and 1160-1172: channel i of n on the initial circle
ringPosition(i, n) == Position("ring", i, n, 0)

\* ensureNodeCapacity(newCount) of the 3D closure; newCount is an option
ensureNodeCapacity3D(newCount) ==
    IF ~IsFinite(newCount) \/ Val(newCount) <= nodeCount3D
    THEN UNCHANGED vars3D
    ELSE
      LET n == Val(newCount)
      IN
      /\ nodesLen' = nodesLen + (n - nodeCount3D)
      /\ basePositions' = basePositions \o
                            [i \in 1..(n - nodeCount3D) |->
                                ringPosition(nodeCount3D + i - 1, n)]
      /\ waveLen3D' = Max(waveLen3D, n)
      /\ latestAmplitudes' = latestAmplitudes \o Zeros(n - Len(latestAmplitudes))
      /\ nodeCount3D' = n
      /\ UNCHANGED <<hasLiveData, lastUpdateMs, layout, instancedCount,
                     surfaceLen, trailCount, drawn, running3D, trails, csvUi,
                     animatePending>>

\* window.setNodeCount(n)
setNodeCount(n) ==
    /\ ensureNodeCapacity3D(n)
    /\ UNCHANGED <<vars2D, perfNow>>

\* An item's id is a number [num, den] with den > 0
Whole(n) == [num |-> n, den |-> 1]

\* x | 0 for a number below 2^31 in size: the fraction is cut off towards
\* zero (a number that size is wrapped into the signed 32 bit range as well)
ToInt32(x) ==
    IF x.num >= 0 THEN x.num \div x.den ELSE 0 - ((0 - x.num) \div x.den)

RECURSIVE applyItems(_, _, _)
\* Line 1201-1210: the items of payload.nodes from position k on
applyItems(amps, items, k) ==
    IF k > Len(items) THEN amps
    ELSE
      LET item == items[k]
          id == ToInt32(item.id)
          next == IF id >= 0 /\ id < nodeCount3D /\ IsFinite(item.amplitude)
                  THEN [amps EXCEPT ![id + 1] = Val(item.amplitude)]
                  ELSE amps
      IN applyItems(next, items, k + 1)

\* window.updateNodes(payload); payload is [ok, nodes], ok saying that
\* payload.nodes is an array
updateNodes(payload) ==
    IF ~payload.ok
    THEN UNCHANGED progVars
    ELSE
      /\ latestAmplitudes' = applyItems(latestAmplitudes, payload.nodes, 1)
      /\ hasLiveData' = TRUE
      /\ lastUpdateMs' = perfNow
      /\ UNCHANGED <<nodeCount3D, nodesLen, waveLen3D, layout, instancedCount,
                     surfaceLen, trailCount, scene3D, vars2D, perfNow>>

\* layouts[(idx + 1) % layouts.length]
NextLayout(l) ==
    CASE l = "grid" -> "helix"
      [] l = "helix" -> "sphere"
      [] l = "sphere" -> "cylinder"
      [] OTHER -> "grid"

\* A trail is [written, idx]: written holds the points of slots
\* 0..Len(written)-1; the slots after them still hold the zero vector the
\* constructor filled the trail with; idx is the slot written next.
\* new TrailSystem(count, length)
TrailSystem(count) == [i \in 1..count |-> [written |-> <<>>, idx |-> 0]]

\* Mutant of trailUpdate: the write index is not advanced
trailUpdate_SameSlot(tr, pos) ==
    [written |-> IF tr.idx < Len(tr.written)
                 THEN [tr.written EXCEPT ![tr.idx + 1] = pos]
                 ELSE Append(tr.written, pos),
     idx |-> tr.idx]

\* TrailSystem.update for one trail (line 719-721)
trailUpdate(tr, pos) ==
    [written |-> IF tr.idx < Len(tr.written)
                 THEN [tr.written EXCEPT ![tr.idx + 1] = pos]
                 ELSE Append(tr.written, pos),
     idx |-> (tr.idx + 1) % TrailLength]

\* new THREE.Vector3(): the point every slot of a new trail holds
ZeroPoint == [base |-> Position("origin", 0, 0, 0), a |-> 0]

\* The slots 0 .. TrailLength-1 of a trail
trailPoints(tr) ==
    [k \in 1..TrailLength |->
        IF k <= Len(tr.written) THEN tr.written[k] ELSE ZeroPoint]

\* Line 722-727: the points handed to the trail's line after an update,
\* slot idx first
trailOrdered(tr) ==
    [j \in 1..TrailLength |-> trailPoints(tr)[((tr.idx + j - 1) % TrailLength) + 1]]

\* Mutant of layoutClick: the trail system is kept
layoutClick_KeepsTrails ==
    /\ layout' = NextLayout(layout)
    /\ instancedCount' = nodeCount3D
    /\ surfaceLen' = nodeCount3D
    /\ UNCHANGED <<nodeCount3D, nodesLen, waveLen3D, latestAmplitudes,
                   hasLiveData, lastUpdateMs, trailCount, scene3D, vars2D,
                   perfNow>>

\* The layout button's click handler
layoutClick ==
    /\ layout' = NextLayout(layout)
    /\ instancedCount' = nodeCount3D
    /\ surfaceLen' = nodeCount3D
    /\ trailCount' = nodeCount3D
    /\ trails' = TrailSystem(nodeCount3D)
    /\ UNCHANGED <<nodeCount3D, nodesLen, waveLen3D, latestAmplitudes,
                   hasLiveData, lastUpdateMs, basePositions, drawn, running3D,
                   csvUi, animatePending, vars2D, perfNow>>

\* A calibration table is the sequence of its non-blank lines.  A line is
\* [cols, first, x, y, z]: cols is the number of comma-separated fields;
\* first is the first field, [lead, rest], the integer its text begins with
\* (an option) and the text after it ("" for none); x, y, z are parseFloat
\* of fields 1..3 (options, in mm; <<>> where the field is missing or NaN).
Line(cols, lead, rest, x, y, z) ==
    [cols |-> cols, first |-> [lead |-> lead, rest |-> rest],
     x |-> x, y |-> y, z |-> z]

\* parseInt(cols[0].trim(), 10): the leading integer, NaN without one
parseInt(field) == field.lead

\* /^\s*id\s*,/i.test(line)
IsIdHeader(line) ==
    line.first.lead = None /\ line.first.rest = "id" /\ line.cols >= 2

\* Line 989: the first line parsed as a row
firstRow(lines) == IF lines # <<>> /\ IsIdHeader(lines[1]) THEN 2 ELSE 1

\* Mutant of rowDefines: the index is not checked against the channel count
rowDefines_AnyIndex(row, i) ==
    /\ row.cols >= 4
    /\ IsFinite(parseInt(row.first))
    /\ IsFinite(row.x) /\ IsFinite(row.y) /\ IsFinite(row.z)
    /\ Val(parseInt(row.first)) = i

\* Line 992-999: is this row taken as the position of channel i?
rowDefines(row, i) ==
    /\ row.cols >= 4
    /\ IsFinite(parseInt(row.first))
    /\ Val(parseInt(row.first)) >= 0 /\ Val(parseInt(row.first)) < nodeCount3D
    /\ IsFinite(row.x) /\ IsFinite(row.y) /\ IsFinite(row.z)
    /\ Val(parseInt(row.first)) = i

\* Mutant of rowPosition: the coordinates are taken in input order
rowPosition_NoSwap(row) == Position("table", Val(row.x), Val(row.y), Val(row.z))

\* Line 1002: new THREE.Vector3(x, z, y)
rowPosition(row) == Position("table", Val(row.x), Val(row.z), Val(row.y))

\* parseCsvText(text): one position per channel, from the last row of the
\* table that defines it, otherwise a copy of the present base position
parseCsvText(rows) ==
    [i \in 1..nodeCount3D |->
        LET ks == {k \in firstRow(rows)..Len(rows) : rowDefines(rows[k], i - 1)}
        IN IF ks # {}
           THEN rowPosition(rows[CHOOSE k \in ks : \A j \in ks : j <= k])
           ELSE basePositions[i]]

\* applyPositions(newPositions), line 1011-1017
applyPositions(newPositions) ==
    [i \in 1..Len(basePositions) |->
        IF i <= nodeCount3D THEN newPositions[i] ELSE basePositions[i]]

\* Mutant of rowCount: every line counts, the header too
rowCount_WithHeader(rows) == Len(rows)

\* Line 1045 and 1062: the number of lines that are not an id header
rowCount(rows) == Cardinality({k \in 1..Len(rows) : ~IsIdHeader(rows[k])})

\* Line 1046-1048 and 1063-1065: the outcome of the row check
rowCheck(rows) == IF rowCount(rows) # nodeCount3D THEN "raised" ELSE "silent"

\* nodesCsvEl 'change', line 1056-1058: loadNodesFromCsv(file) after the
\* file was read, applyPositions(parseCsvText(text)); the handler then
\* waits for the file's text a second time
loadNodesFromCsv(rows) ==
    /\ csvUi.file = None
    /\ basePositions' = applyPositions(parseCsvText(rows))
    /\ csvUi' = [csvUi EXCEPT !.file = Some(rows)]
    /\ UNCHANGED <<nodeCount3D, nodesLen, waveLen3D, latestAmplitudes,
                   hasLiveData, lastUpdateMs, layout, instancedCount,
                   surfaceLen, trailCount, drawn, running3D, trails,
                   animatePending, vars2D, perfNow>>

\* nodesCsvEl 'change', line 1059-1066: the row check after the second await
csvRowCheck ==
    /\ csvUi.file # None
    /\ csvUi' = [csvUi EXCEPT !.file = None, !.alert = rowCheck(Val(csvUi.file))]
    /\ UNCHANGED <<nodeCount3D, nodesLen, waveLen3D, latestAmplitudes,
                   hasLiveData, lastUpdateMs, layout, instancedCount,
                   surfaceLen, trailCount, basePositions, drawn, running3D,
                   trails, animatePending, vars2D, perfNow>>

\* tryLoadDefaultCsv(), once the response to fetch('./nodes.csv') is there:
\* found is res.ok, rows the lines of the file
tryLoadDefaultCsv(found, rows) ==
    /\ csvUi.startup
    /\ IF found
       THEN /\ basePositions' = applyPositions(parseCsvText(rows))
            /\ csvUi' = [csvUi EXCEPT !.startup = FALSE,
                                      !.alert = rowCheck(rows)]
       ELSE /\ csvUi' = [csvUi EXCEPT !.startup = FALSE]
            /\ UNCHANGED basePositions
    /\ UNCHANGED <<nodeCount3D, nodesLen, waveLen3D, latestAmplitudes,
                   hasLiveData, lastUpdateMs, layout, instancedCount,
                   surfaceLen, trailCount, drawn, running3D, trails,
                   animatePending, vars2D, perfNow>>

\* toggleEl 'click' of the 3D view: Pause / Resume
toggle3D ==
    /\ running3D' = ~running3D
    /\ UNCHANGED <<nodeCount3D, nodesLen, waveLen3D, latestAmplitudes,
                   hasLiveData, lastUpdateMs, layout, instancedCount,
                   surfaceLen, trailCount, basePositions, drawn, trails,
                   csvUi, animatePending, vars2D, perfNow>>

FreshnessMs == 500

\* Mutant of useLive: once live, always live
useLive_NeverExpires(now) == hasLiveData

\* Line 1254 and 1299: hasLiveData && (performance.now() - lastUpdateMs) <= 500
useLive(now) == hasLiveData /\ (now - lastUpdateMs) <= FreshnessMs

\* Line 1256 and 1301: the amplitude term a of channel i; the position
\* drawn is the base position with a * 0.2 added to its height
liveTerm(live, ampScale) ==
    [i \in 1..nodeCount3D |-> IF live THEN latestAmplitudes[i] * ampScale ELSE 0]

\* Line 1273: the amplitude term of label i (the sprite sits 0.015 above
\* base height + a * 0.2)
labelTerm(ampScale) ==
    [i \in 1..nodeCount3D |-> latestAmplitudes[i] * ampScale]

\* getLayoutPositions(layout): one position per channel, under the rule
\* the switch selects (grid is the default branch)
getLayoutPositions(l) ==
    [i \in 1..nodeCount3D |->
        Position(IF l \in {"helix", "sphere", "cylinder"} THEN l ELSE "grid",
                 i - 1, nodeCount3D, 0)]

\* Exact rationals [num, den], den > 0, in lowest terms
RECURSIVE GCD(_, _)
GCD(a, b) == IF b = 0 THEN a ELSE GCD(b, a % b)

Frac(n, d) ==
    LET g == GCD(Abs(n), Abs(d))
        sgn == IF d < 0 THEN 0 - 1 ELSE 1
    IN [num |-> sgn * (n \div g), den |-> sgn * (d \div g)]

FAdd(a, b) == Frac(a.num * b.den + b.num * a.den, a.den * b.den)
FSub(a, b) == Frac(a.num * b.den - b.num * a.den, a.den * b.den)
FMul(a, b) == Frac(a.num * b.num, a.den * b.den)
FLeq(a, b) == a.num * b.den <= b.num * a.den

\* Math.ceil(Math.sqrt(n || 1))
CeilSqrt(n) ==
    LET m == IF n = 0 THEN 1 ELSE n
    IN CHOOSE k \in 1..m : k * k >= m /\ (k - 1) * (k - 1) < m

\* Math.ceil(a / b)
CeilDiv(a, b) == (a + b - 1) \div b

\* A point given by its distance from the vertical axis (squared), its
\* angle about that axis and its height: (cos(angle) * rad, h,
\* sin(angle) * rad).  The angle is v turns (unit "turn", v in [0, 1)) or
\* v times the golden angle pi * (3 - sqrt 5) (unit "golden"), which is no
\* rational part of a turn; on the axis the angle is written as 0 turns.
AxisPoint(rad2, unit, v, h) ==
    [rad2 |-> rad2,
     angle |-> IF rad2.num = 0 THEN [unit |-> "turn", v |-> Frac(0, 1)]
               ELSE IF unit = "turn"
                    THEN [unit |-> unit, v |-> Frac(v.num % v.den, v.den)]
                    ELSE [unit |-> unit, v |-> v],
     h |-> h]

\* Line 642 (helix) and 656 (sphere): nodeCount > 1 ? i / (nodeCount - 1) : 0
alongOf(i, n) == IF n > 1 THEN Frac(i, n - 1) ELSE Frac(0, 1)

\* Line 640-651: t, angle = t * 6 pi, radius = 0.15 + 0.1 t, height = 0.4 t - 0.2
helixPoint(i, n) ==
    LET t == alongOf(i, n)
        radius == FAdd(Frac(15, 100), FMul(t, Frac(1, 10)))
    IN AxisPoint(FMul(radius, radius), "turn", FMul(t, Frac(3, 1)),
                 FSub(FMul(t, Frac(4, 10)), Frac(2, 10)))

\* Mutant of sphereRad2: the radius 0.25 is not applied
sphereRad2_Unscaled(y) ==
    LET r2 == FSub(Frac(1, 1), FMul(y, y))
    IN IF r2.num < 0 THEN Frac(0, 1) ELSE r2

\* Line 657 and 660-662: (sqrt(max(0, 1 - y * y)) * 0.25) squared
sphereRad2(y) ==
    LET r2 == FSub(Frac(1, 1), FMul(y, y))
    IN IF r2.num < 0 THEN Frac(0, 1) ELSE FMul(r2, Frac(1, 16))

\* Line 654-665: y = 1 - 2 i / (n - 1) (0 for one channel), theta = phi * i
spherePoint(i, n) ==
    LET y == IF n > 1 THEN FSub(Frac(1, 1), FMul(alongOf(i, n), Frac(2, 1)))
             ELSE Frac(0, 1)
    IN AxisPoint(sphereRad2(y), "golden", Frac(i, 1), FMul(y, Frac(1, 4)))

\* Line 668-682: rows, cols, angle = col / cols turns, radius 0.2,
\* y = (row / rows) * 0.4 - 0.2
cylinderPoint(i, n) ==
    LET rows == CeilSqrt(n)
        cols == CeilDiv(IF n = 0 THEN 1 ELSE n, rows)
        row == i \div cols
        col == i % cols
    IN AxisPoint(Frac(4, 100), "turn", Frac(col, cols),
                 FSub(FMul(Frac(row, rows), Frac(4, 10)), Frac(2, 10)))

\* Line 684-691: the point (x * 0.4, 0, z * 0.4) of the grid
gridPoint(i, n) ==
    LET gs == CeilSqrt(n)
    IN [x |-> FMul(FSub(Frac(i % gs, gs), Frac(1, 2)), Frac(4, 10)),
        y |-> Frac(0, 1),
        z |-> FMul(FSub(Frac(i \div gs, gs), Frac(1, 2)), Frac(4, 10))]

\* The point a position of getLayoutPositions stands for
LayoutPoint(p) ==
    CASE p.sys = "helix" -> helixPoint(p.c[1], p.c[2])
      [] p.sys = "sphere" -> spherePoint(p.c[1], p.c[2])
      [] p.sys = "cylinder" -> cylinderPoint(p.c[1], p.c[2])
      [] OTHER -> gridPoint(p.c[1], p.c[2])

\* Line 1245-1248: the base positions after the frame copied the layout's
framePositions ==
    [i \in 1..Len(basePositions) |->
        IF i <= nodeCount3D THEN getLayoutPositions(layout)[i]
        ELSE basePositions[i]]

\* Line 1297-1307: every trail gets the frame's position of its channel,
\* a base position and the amplitude term a added to its height
frameTrails(base, terms) ==
    [i \in 1..Len(trails) |->
        IF i <= Min(trailCount, nodeCount3D)
        THEN trailUpdate(trails[i], [base |-> base[i], a |-> terms[i]])
        ELSE trails[i]]

\* animate(): one frame of the 3D view.  ampScale is the gain control's
\* value, labelsChecked the labels checkbox, elapsed the time that passes
\* between the two readings of performance.now() on line 1254 and 1299,
\* threw whether the body throws; a body that throws is taken to throw
\* before it has changed the scene (controls.update(), line 1237).  The
\* first call (line 1334) counts as the first scheduled callback.
animate(ampScale, labelsChecked, elapsed, threw) ==
    /\ animatePending >= 1
    /\ animatePending' = afterFrame(animatePending - 1, threw)
    /\ perfNow' = perfNow + elapsed
    /\ IF threw
       THEN /\ drawn' = [drawn EXCEPT !.threw = TRUE]
            /\ UNCHANGED <<basePositions, trails, surfaceLen>>
       ELSE IF running3D
       THEN /\ basePositions' = framePositions
            /\ drawn' =
                  [at |-> perfNow,
                   live |-> useLive(perfNow),
                   inst |-> liveTerm(useLive(perfNow), ampScale),
                   label |-> IF labelsChecked THEN labelTerm(ampScale) ELSE <<>>,
                   trail |-> liveTerm(useLive(perfNow + elapsed), ampScale),
                   threw |-> drawn.threw]
            /\ surfaceLen' = nodeCount3D
            /\ trails' = frameTrails(framePositions,
                                     liveTerm(useLive(perfNow + elapsed), ampScale))
       ELSE UNCHANGED <<basePositions, drawn, trails, surfaceLen>>
    /\ UNCHANGED <<nodeCount3D, nodesLen, waveLen3D, latestAmplitudes,
                   hasLiveData, lastUpdateMs, layout, instancedCount,
                   trailCount, running3D, csvUi, vars2D>>

-----------------------------------------------------------------------------
(* Initial state: the state after both closures have run *)

-----------------------------------------------------------------------------
(* The search page (part_000): performSearchWithRetry and apiRequest *)

\* Line 148: the defaults every caller of the page runs with
maxRetry == 5
interval == 1500

\* A response of /api/search is [net, json, ok, status, total_found]: the
\* fetch resolved, its body parsed as JSON, res.ok, data.status and
\* data.total_found
Response(net, json, ok, status, found) ==
    [net |-> net, json |-> json, ok |-> ok, status |-> status, total_found |-> found]
Responses ==
    {Response(FALSE, FALSE, FALSE, "none", 0),
     Response(TRUE, FALSE, FALSE, "none", 0),
     Response(TRUE, TRUE, FALSE, "error", 0),
     Response(TRUE, TRUE, TRUE, "error", 0),
     Response(TRUE, TRUE, FALSE, "preparing", 0),
     Response(TRUE, TRUE, TRUE, "preparing", 0),
     Response(TRUE, TRUE, TRUE, "ok", 0),
     Response(TRUE, TRUE, TRUE, "ok", 3)}

\* apiRequest(url, options) on response r: the data, or a throw
apiRequest(r) ==
    [threw |-> ~r.net \/ ~r.json \/ ~r.ok \/ r.status = "error", data |-> r]

\* showStatus(message, type)
showStatus(message, type) == [text |-> message, type |-> type]

\* A call of performSearchWithRetry is [pc, attempt, sent, oks, timer,
\* waited, flight]: pc is "fetch" (awaiting apiRequest), "sleep" (awaiting
\* the timer) or "done"; sent counts its requests and oks the responses
\* with status 'ok' it got; timer is what is left of its setTimeout, waited
\* the time since its last attempt failed, flight the age of its request.
NewCall == [pc |-> "start", attempt |-> 0, sent |-> 0, oks |-> 0,
            timer |-> 0, waited |-> 0, flight |-> 0]

\* Mutant of loopHead: the loop has no limit
loopHead_NoLimit(c) == [c EXCEPT !.pc = "fetch", !.sent = @ + 1, !.flight = 0]

\* Line 150-156 and 170: the loop head sends the next request, or the loop
\* is left
loopHead(c) ==
    IF c.attempt < maxRetry
    THEN [c EXCEPT !.pc = "fetch", !.sent = @ + 1, !.flight = 0]
    ELSE [c EXCEPT !.pc = "done"]

\* Line 170: the status shown when the call c reaches the loop head
statusAtLoopHead(c, shown) ==
    IF loopHead(c).pc = "done" THEN showStatus("slow", "error") ELSE shown

\* performSearchWithRetry(query, topK, 'semantic') up to its first await
performSearchWithRetry ==
    search' = [search EXCEPT !.calls = Append(@, loopHead(NewCall)),
                             !.status = statusAtLoopHead(NewCall, @)]

\* The request of call k settles with response r: line 156-168 up to the
\* await of the timer, or the return
searchSettles(k, r) ==
    LET c == search.calls[k]
        res == apiRequest(r)
        got == [c EXCEPT !.oks = IF r.status = "ok" THEN @ + 1 ELSE @]
    IN /\ c.pc = "fetch"
       /\ search' =
            IF ~res.threw /\ res.data.status = "ok"
            THEN [search EXCEPT !.calls[k] = [got EXCEPT !.pc = "done"],
                                !.results = Some(res.data.total_found),
                                !.status = showStatus("done", "success")]
            ELSE [search EXCEPT
                    !.calls[k] = [got EXCEPT !.pc = "sleep", !.attempt = @ + 1,
                                             !.timer = interval, !.waited = 0],
                    !.status = showStatus(IF res.threw THEN "waiting" ELSE "preparing",
                                          "info")]

\* The timer of call k fires: back to the loop head
searchTimer(k) ==
    LET c == search.calls[k]
    IN /\ c.pc = "sleep" /\ c.timer = 0
       /\ search' = [search EXCEPT !.calls[k] = loopHead(c),
                                   !.status = statusAtLoopHead(c, @)]

-----------------------------------------------------------------------------
(* The translator's upload page (PptTranslator/static/script.js) *)

\* Line 124 and 127: the size limits (MB)
MaxFileMB == 500
LargeFileMB == 50

\* Line 196-200
resetUI(u) == [u EXCEPT !.disabled = FALSE, !.text = "upload", !.loading = FALSE]

\* Line 202-206
showError(u, msg) == resetUI([u EXCEPT !.message = msg])

\* Line 67-98: updateProcessingStatus(data), data = [is_processing, stage]
updateProcessingStatus(u, data) ==
    IF data.is_processing
    THEN [u EXCEPT !.disabled = TRUE, !.loading = TRUE, !.progressBox = TRUE,
                   !.progress = "server", !.status = "message"]
    ELSE
      LET shown == CASE data.stage = "completed" ->
                          [u EXCEPT !.status = "completed", !.progress = "100"]
                     [] data.stage = "error" ->
                          showError([u EXCEPT !.status = "message"], "status")
                     [] OTHER -> u
      IN IF ~shown.disabled THEN resetUI(shown) ELSE shown

\* Line 116-193: the form's submit handler; file is an option of
\* [pptx, mb], confirmed the operator's answer to the large-file question
submit(file, confirmed) ==
    IF \/ file = None
       \/ ~Val(file).pptx
       \/ Val(file).mb > MaxFileMB
       \/ (Val(file).mb > LargeFileMB /\ ~confirmed)
    THEN UNCHANGED upload
    ELSE upload' = [upload EXCEPT !.disabled = TRUE, !.text = "busy",
                                  !.loading = TRUE, !.progressBox = TRUE,
                                  !.progress = "0", !.xhrs = @ + 1]

\* Line 150-165: xhr.upload.onprogress and xhr.onprogress
xhrProgress(phase) ==
    /\ upload.xhrs > 0
    /\ upload' = [upload EXCEPT !.progress = phase]

\* Line 167-187: xhr.onload
xhrLoad(status) ==
    /\ upload.xhrs > 0
    /\ upload' = resetUI([upload EXCEPT
                             !.message = IF status = 200 THEN "success" ELSE "http",
                             !.xhrs = @ - 1])

\* Line 189-190: xhr.onerror and xhr.ontimeout
xhrFails(kind) ==
    /\ upload.xhrs > 0
    /\ upload' = showError([upload EXCEPT !.xhrs = @ - 1], kind)

\* Line 56-58: checkStatus() up to its await, called by the 3 s interval
checkStatus == upload' = [upload EXCEPT !.polls = @ + 1]

\* Line 59-60: a status request returns data
statusSettles(data) ==
    /\ upload.polls > 0
    /\ upload' = updateProcessingStatus([upload EXCEPT !.polls = @ - 1], data)

\* Line 61-63: a status request fails, which is logged
statusFails ==
    /\ upload.polls > 0
    /\ upload' = [upload EXCEPT !.polls = @ - 1, !.logged = TRUE]

\* The two pages when their scripts have run: no search yet; the upload
\* button enabled and the first status request on its way (line 49)
InitPages ==
    /\ search = [calls |-> <<>>, status |-> showStatus("none", ""), results |-> None]
    /\ upload = [disabled |-> FALSE, text |-> "upload", loading |-> FALSE,
                 progressBox |-> FALSE, progress |-> "none", status |-> "none",
                 message |-> "none", logged |-> FALSE, xhrs |-> 0, polls |-> 1]

\* count3D is the channel count the 3D closure starts with: 15, or
\* cfg.nodes.count of config.json (line 821-822 and 868)
InitScene(windows, count3D) ==
    /\ sampleRateEstimator =
         [lastTime |-> None, sampleTimes |-> <<>>,
          estimatedRate |-> [num |-> 0, den |-> 1],
          recommendedWindow |-> InitRecommendedMs,
          maxSamplesPerNode |-> maxSamplesPerNode,
          autoAdjusted |-> FALSE]
    /\ winElValue \in windows
    /\ windowSec = winElValue
    /\ nodeCount = InitNodeCount
    /\ rowsEls = [i \in 1..InitNodeCount |-> TRUE]
    /\ visibleSet = 0 .. (InitNodeCount - 1)
    /\ dataByNode = [i \in 1..InitNodeCount |-> <<>>]
    /\ waveLen = InitNodeCount
    /\ t0Payload = None
    /\ externalActive = FALSE
    /\ lastExternalSec = 0
    /\ perfNow = 0
    /\ clock0 = 0
    /\ modal = [open |-> FALSE, count |-> 0, checked |-> {}]
    /\ chart = [data |-> [i \in 1..InitNodeCount |-> <<>>],
                committed |-> [i \in 1..InitNodeCount |-> <<>>],
                error |-> FALSE, x |-> None,
                rows |-> [i \in 1..InitNodeCount |-> BlankRow]]
    /\ task = None
    /\ running2D = TRUE
    /\ renderPending = 1
    /\ nodeCount3D = count3D
    /\ nodesLen = count3D
    /\ waveLen3D = count3D
    /\ latestAmplitudes = Zeros(count3D)
    /\ hasLiveData = FALSE
    /\ lastUpdateMs = 0
    /\ layout = "helix"
    /\ instancedCount = count3D
    /\ surfaceLen = count3D
    /\ trailCount = count3D
    /\ basePositions = [i \in 1..count3D |->
                            ringPosition(i - 1, count3D)]
    /\ drawn = [at |-> 0, live |-> FALSE, inst |-> <<>>, label |-> <<>>,
                trail |-> <<>>, threw |-> FALSE]
    /\ running3D = TRUE
    /\ trails = TrailSystem(count3D)
    /\ csvUi = [file |-> None, alert |-> "none", startup |-> TRUE]
    /\ animatePending = 1
    /\ producer = [ts |-> None, sent |-> 0, mode |-> 0, switched |-> FALSE]
    /\ InitPages

InitWith(windows) == InitScene(windows, InitNodeCount)

-----------------------------------------------------------------------------
(* Environment: the local clock, and the bounds that keep the model finite *)

MaxBufLen == 2
MaxIntervals == 1

\* The host clock advances to `now` between two callbacks
tick(now) ==
    /\ now > perfNow
    /\ perfNow' = now
    /\ UNCHANGED <<vars2D, vars3D>>

\* The producer stops before a buffer or the interval history outgrows the bound
Within(maxLen, maxIv) ==
    /\ \A i \in 1..Len(dataByNode') : Len(dataByNode'[i]) <= maxLen
    /\ Len(sampleRateEstimator'.sampleTimes) <= maxIv

-----------------------------------------------------------------------------
(* Spec: the Time-Window Store under arbitrary producers and operators *)

NaN == None
SourceTimestamps == {100000, 100700}
Timestamps == {None} \cup {Some(t) : t \in SourceTimestamps}
Wide(n, y) == [i \in 1..n |-> Some(y)]
Vectors == {<<Some(1), Some(-2)>>, <<NaN, Some(2)>>}
SinglePayloads ==
    [shape : {"nodes"}, timestamp : Timestamps, vec : Vectors]
    \cup [shape : {"amps"}, timestamp : {Some(100700)}, vec : {<<Some(1), Some(-2)>>}]
    \cup [shape : {"none"}, timestamp : {None, Some(100000)}, vec : {<<>>}]
    \cup [shape : {"null"}, timestamp : {None}, vec : {<<>>}]
BatchPayloads ==
    {[ok |-> TRUE, ts |-> <<a>>, frames |-> <<v>>] :
        a \in Timestamps, v \in {<<Some(1), Some(-2)>>}}
    \cup {[ok |-> TRUE, ts |-> <<Some(ab[1]), Some(ab[2])>>,
           frames |-> <<<<Some(1), Some(-2)>>, <<Some(1), Some(-2)>>>>] :
            ab \in {<<100000, 100700>>, <<100700, 100000>>}}
    \cup {[ok |-> TRUE, ts |-> <<NaN, Some(100700)>>,
           frames |-> <<<<Some(3)>>, <<Some(3)>>>>]}
    \cup {[ok |-> FALSE, ts |-> <<>>, frames |-> <<>>]}
WindowInputs == {500}
InitWindows == {5000}

PushSingle ==
    /\ \E p \in SinglePayloads :
          pushGraphSamples(p) /\ Within(MaxBufLen, MaxIntervals)
    /\ UNCHANGED <<producer, pages>>

PushBatch ==
    /\ \E p \in BatchPayloads :
          pushGraphBatch(p) /\ Within(MaxBufLen, MaxIntervals)
    /\ UNCHANGED <<producer, pages>>

WindowInput ==
    /\ \E val \in WindowInputs : winElInput(val)
    /\ UNCHANGED <<producer, pages>>

Clear == clearAllData /\ UNCHANGED <<producer, pages>>

ClockTimes == {300}

Tick == (\E now \in ClockTimes : tick(now)) /\ UNCHANGED <<producer, pages>>

Init == InitWith(InitWindows)

Next == PushSingle \/ PushBatch \/ WindowInput \/ Clear

Spec == Init /\ [][Next]_vars

-----------------------------------------------------------------------------
(* Properties of the Time-Window Store *)

Buf(i) == IF i <= Len(dataByNode) THEN dataByNode[i] ELSE <<>>

Sorted(arr) == \A k \in 1..(Len(arr) - 1) : arr[k].t <= arr[k + 1].t

MaxT(arr) == CHOOSE m \in {arr[k].t : k \in 1..Len(arr)} :
                \A k \in 1..Len(arr) : arr[k].t <= m

InWindow(arr, win) ==
    arr # <<>> => \A k \in 1..Len(arr) : arr[k].t >= MaxT(arr) - win

SingleHits(p, i) ==
    p.shape \in {"nodes", "amps"} /\ i <= Len(p.vec) /\ IsFinite(p.vec[i])

NFrames(p) == Min(Len(p.ts), Len(p.frames))

BatchHits(p, i) ==
    {k \in 1..NFrames(p) :
        IsFinite(p.ts[k]) /\ i <= Len(p.frames[k]) /\ IsFinite(p.frames[k][i])}

BatchT(p, k) == BatchTRel(Val(p.ts[k]), BatchT0(p, NFrames(p)))

\* The samples the call stores on channel i arrive in time order, after
\* everything the channel already holds
SingleInOrder(p, i) ==
    /\ SingleHits(p, i)
    /\ Sorted(Buf(i))
    /\ Buf(i) # <<>> => SingleT(p) >= Last(Buf(i)).t

BatchInOrder(p, i) ==
    /\ p.ok
    /\ BatchHits(p, i) # {}
    /\ Sorted(Buf(i))
    /\ \A k \in BatchHits(p, i) :
         /\ Buf(i) # <<>> => BatchT(p, k) >= Last(Buf(i)).t
         /\ \A j \in BatchHits(p, i) : j < k => BatchT(p, j) <= BatchT(p, k)

\* C1 (as claimed): with the display window never changed, whatever the order
\* of the timestamps, every buffer is sorted by t and holds no sample older
\* than its largest t minus the display window.
C1_AnyOrderSortedInWindow ==
    ~sampleRateEstimator.autoAdjusted =>
        \A i \in 1..Len(dataByNode) :
            Sorted(dataByNode[i]) /\ InWindow(dataByNode[i], windowSec)

\* C1 (amended): a call whose samples for a channel arrive in non-decreasing
\* time order, on a buffer that is sorted, leaves that buffer sorted by t and
\* holding no sample older than its largest t minus the display window.
C1_InOrderSortedInWindow ==
    [][\A i \in 1..Len(dataByNode') :
         \/ Sorted(dataByNode'[i]) /\ InWindow(dataByNode'[i], windowSec')
         \/ /\ \A p \in SinglePayloads :
                 ~(SingleInOrder(p, i) /\ pushGraphSamples(p))
            /\ \A p \in BatchPayloads :
                 ~(BatchInOrder(p, i) /\ pushGraphBatch(p))
      ]_vars

\* C1 witness: a buffer that received two samples in time order and kept both
C1_Witness ==
    \E i \in 1..Len(dataByNode) :
        /\ Len(dataByNode[i]) = 2
        /\ dataByNode[i][1].t < dataByNode[i][2].t
        /\ dataByNode[i][2].t - dataByNode[i][1].t <= windowSec

\* C3 (as claimed): in every state, also right after the display window was
\* reduced, no buffer holds a sample older than its latest t minus the
\* current display window.  Stated for the buffers that are in time order,
\* where the latest t is the last one.
C3_NeverOlderThanWindow ==
    \A i \in 1..Len(dataByNode) :
        Sorted(dataByNode[i]) => InWindow(dataByNode[i], windowSec)

\* C8 (as claimed): the samples held in the buffers are all relative to one
\* origin: local-clock samples and source-origin samples never coexist.
C8_SingleOrigin ==
    \A i, j \in 1..Len(dataByNode) :
        \A a \in 1..Len(dataByNode[i]), b \in 1..Len(dataByNode[j]) :
            dataByNode[i][a].org = dataByNode[j][b].org

\* The first finite timestamp among the frames of a batch (an option)
FirstFinite(p) ==
    LET ks == {k \in 1..NFrames(p) : IsFinite(p.ts[k])}
    IN IF ks = {} THEN None
       ELSE p.ts[CHOOSE k \in ks : \A j \in ks : k <= j]

LastHit(p, i) == CHOOSE k \in BatchHits(p, i) : \A j \in BatchHits(p, i) : j <= k

\* C9 (as claimed): a sample stored from a payload with a finite source
\* timestamp ts has t = ts - t0, t0 being the first finite source timestamp
\* seen by either entry point; once set, t0 never changes.
C9_RelativeToFirstTimestamp ==
    [][/\ t0Payload # None => t0Payload' = t0Payload
       /\ \A p \in SinglePayloads :
            ~(p.shape # "null" /\ IsFinite(p.timestamp) /\ pushGraphSamples(p))
            \/ /\ t0Payload' = (IF t0Payload = None THEN p.timestamp ELSE t0Payload)
               /\ \A i \in 1..Len(p.vec) :
                    SingleHits(p, i) =>
                      Last(dataByNode'[i]).t = Val(p.timestamp) - Val(t0Payload')
       /\ \A p \in BatchPayloads :
            ~(p.ok /\ FirstFinite(p) # None /\ pushGraphBatch(p))
            \/ /\ t0Payload' = (IF t0Payload = None THEN FirstFinite(p) ELSE t0Payload)
               /\ \A i \in 1..Len(dataByNode') :
                    BatchHits(p, i) # {} =>
                      Last(dataByNode'[i]).t =
                         Val(p.ts[LastHit(p, i)]) - Val(t0Payload')
      ]_vars

-----------------------------------------------------------------------------
(* SpecRate: the Sample-Rate Estimator fed by a source that sends one-frame *)
(* batches at a steady period, with jitter, and may change its rate once    *)

MaxSent == 23
StartTimestamp == 100000

\* The periods (ms) a source mode cycles through
Periods == << <<99, 101>>, <<10>>, <<2>>, <<250>>, <<14>> >>
Modes == 1..Len(Periods)
RateWindowInputs == {2000, 61000}
RateInitWindows == {5000, 60000}

PeriodOf(mode, sent) == Periods[mode][(sent % Len(Periods[mode])) + 1]

\* The source sends its next one-frame batch, in mode m
SourceSends(m) ==
    /\ producer.sent < MaxSent
    /\ producer.mode \in {0, m} \/ ~producer.switched
    /\ LET ts == IF producer.ts = None THEN StartTimestamp
                 ELSE Val(producer.ts) + PeriodOf(m, producer.sent)
       IN /\ UNCHANGED pages
          /\ producer' = [ts |-> Some(ts), sent |-> producer.sent + 1, mode |-> m,
                          switched |-> producer.switched
                                        \/ (producer.mode # 0 /\ producer.mode # m)]
          /\ pushGraphBatch([ok |-> TRUE, ts |-> <<Some(ts)>>,
                             frames |-> <<<<Some(1)>>>>])

RateBatch == \E m \in Modes : SourceSends(m)

RateWindowInput ==
    /\ \E val \in RateWindowInputs : winElInput(val)
    /\ UNCHANGED <<producer, pages>>

InitRate == InitWith(RateInitWindows)

NextRate == RateBatch \/ RateWindowInput

SpecRate == InitRate /\ [][NextRate]_vars

-----------------------------------------------------------------------------
(* Properties of the Sample-Rate Estimator (under SpecRate) *)

\* In SpecRate the source's counter moves exactly in the steps that call
\* pushGraphBatch, hence estimateSampleRate
Observes == producer' # producer
OperatorActs == producer' = producer

\* C4: the estimator changes the display window at most once in a session:
\* an observation changes the window only while the one-shot flag is clear,
\* it sets the flag, and the flag is never cleared again.
C4_AutoAdjustAtMostOnce ==
    /\ [][Observes /\ windowSec' # windowSec
            => ~sampleRateEstimator.autoAdjusted
               /\ sampleRateEstimator'.autoAdjusted]_vars
    /\ [][sampleRateEstimator.autoAdjusted
            => sampleRateEstimator'.autoAdjusted]_vars

\* C4 witness: the window was auto-adjusted to 3 s and the rate has since
\* changed so that 0.5 s is recommended, a further shrink of more than 1 s
C4_Witness ==
    /\ windowSec = 3000
    /\ sampleRateEstimator.recommendedWindow = 500
    /\ producer.switched

\* C5: whenever the estimator changes the display window, the old window
\* exceeded the recommendation by more than 1 s and the new window (and the
\* window control) equals the recommendation; the window never grows.
C5_AutoAdjustOnlyShrinksToRecommendation ==
    [][Observes /\ windowSec' # windowSec
         => /\ windowSec - sampleRateEstimator'.recommendedWindow > 1000
            /\ windowSec' = sampleRateEstimator'.recommendedWindow
            /\ winElValue' = windowSec'
            /\ windowSec' < windowSec]_vars

\* C5 witness: the state right after an automatic adjustment from 60 s
C5_Witness ==
    /\ sampleRateEstimator.autoAdjusted
    /\ winElValue = windowSec
    /\ windowSec = sampleRateEstimator.recommendedWindow
    /\ windowSec = 30500

\* C6: a manual change of the display window sets the one-shot flag, and
\* from then on no observation changes the window: it keeps the operator's
\* value until the operator changes it again.
C6_ManualChangeLocksWindow ==
    /\ [][OperatorActs /\ windowSec' # windowSec
            => sampleRateEstimator'.autoAdjusted /\ windowSec' = winElValue']_vars
    /\ [][Observes /\ sampleRateEstimator.autoAdjusted
            => windowSec' = windowSec /\ sampleRateEstimator'.autoAdjusted]_vars

\* C6 witness: the operator's 2 s window in force although 0.5 s is recommended
C6_Witness ==
    /\ windowSec = 2000
    /\ sampleRateEstimator.recommendedWindow = 500
    /\ Len(sampleRateEstimator.sampleTimes) >= MinIntervals

\* m is a middle element of the intervals: at most half of them are
\* smaller and at most half of them are larger
IsMedian(m, times) ==
    /\ \E k \in 1..Len(times) : times[k] = m
    /\ 2 * Cardinality({k \in 1..Len(times) : times[k] < m}) <= Len(times)
    /\ 2 * Cardinality({k \in 1..Len(times) : times[k] > m}) <= Len(times)

\* rec (ms) is 300 / rate seconds, clamped to [0.5, 60] s and rounded to the
\* nearest half second
IsRecommendation(rec, rate) ==
    LET raw == (300 * 1000 * rate.den) \div rate.num
        clamped == IF raw < 500 THEN 500 ELSE IF raw > 60000 THEN 60000 ELSE raw
    IN /\ rec % 500 = 0
       /\ Abs(rec - clamped) <= 250

WithinTwoPercentOfTenHz(rate) == 5 * Abs(rate.num - 10 * rate.den) <= rate.den

EstimateFollowsMedian ==
    LET est == sampleRateEstimator
    IN /\ Len(est.sampleTimes) <= 20
       /\ Len(est.sampleTimes) >= 10 =>
            /\ \E m \in {est.sampleTimes[k] : k \in 1..Len(est.sampleTimes)} :
                 /\ IsMedian(m, est.sampleTimes)
                 /\ est.estimatedRate.num * m = 1000 * est.estimatedRate.den
            /\ IsRecommendation(est.recommendedWindow, est.estimatedRate)
       /\ Len(est.sampleTimes) < 10 =>
            /\ est.estimatedRate.num = 0
            /\ est.recommendedWindow = 5000

NoChangeBeforeTenIntervals ==
    [][Observes /\ Len(sampleRateEstimator'.sampleTimes) < 10
         => /\ windowSec' = windowSec
            /\ sampleRateEstimator'.estimatedRate = sampleRateEstimator.estimatedRate
            /\ sampleRateEstimator'.recommendedWindow
                 = sampleRateEstimator.recommendedWindow]_vars

\* The example: 12 observations of a source whose intervals alternate
\* between 0.099 s and 0.101 s
JitterExample == producer.mode = 1 /\ ~producer.switched /\ producer.sent = 12

\* C7 (as claimed): rate = 1 / median and recommendation = 300 / rate clamped
\* and rounded, nothing changes below 10 intervals, and in the example the
\* rate is within 2% of 10 Hz and the recommendation is 30 s.
C7_EstimateWithExample30 ==
    /\ [](EstimateFollowsMedian
          /\ (JitterExample =>
                /\ WithinTwoPercentOfTenHz(sampleRateEstimator.estimatedRate)
                /\ sampleRateEstimator.recommendedWindow = 30000))
    /\ NoChangeBeforeTenIntervals

\* C7 (amended): as claimed, but in the example the recommendation is 29.5 s
\* or 30.5 s: 300 times the median interval (0.099 s or 0.101 s), rounded to
\* the nearest half second.
C7_EstimateFollowsMedian ==
    /\ [](EstimateFollowsMedian
          /\ (JitterExample =>
                /\ WithinTwoPercentOfTenHz(sampleRateEstimator.estimatedRate)
                /\ sampleRateEstimator.recommendedWindow \in {29500, 30500}))
    /\ NoChangeBeforeTenIntervals

\* C7 witness: a full history of 20 intervals of two different rates
C7_Witness ==
    /\ Len(sampleRateEstimator.sampleTimes) = 20
    /\ producer.switched
    /\ \E j, k \in 1..20 :
         sampleRateEstimator.sampleTimes[j] # sampleRateEstimator.sampleTimes[k]

-----------------------------------------------------------------------------
(* SpecCap: bursts of samples at 1 ms spacing, far more than one per frame *)

MaxBursts == 3
BurstSizes == {250, 2 * maxSamplesPerNode + 1}
CapWindowInputs == {500, 60000}

BurstBase == IF producer.ts = None THEN StartTimestamp ELSE Val(producer.ts)

\* The source sends n frames, 1 ms apart, in one batch
SourceBurst(n) ==
    /\ producer.sent < MaxBursts
    /\ UNCHANGED pages
    /\ producer' = [producer EXCEPT !.ts = Some(BurstBase + n),
                                    !.sent = producer.sent + 1]
    /\ pushGraphBatch([ok |-> TRUE,
                       ts |-> [k \in 1..n |-> Some(BurstBase + k)],
                       frames |-> [k \in 1..n |-> <<Some(1)>>]])

\* The source sends one sample through pushGraphSamples
SourceSingle ==
    /\ producer.sent < MaxBursts
    /\ UNCHANGED pages
    /\ producer' = [producer EXCEPT !.ts = Some(BurstBase + 1),
                                    !.sent = producer.sent + 1]
    /\ pushGraphSamples([shape |-> "nodes", timestamp |-> Some(BurstBase + 1),
                         vec |-> <<Some(1)>>])

CapBurst == \E n \in BurstSizes : SourceBurst(n)

CapSingle == SourceSingle

CapWindowInput ==
    /\ \E val \in CapWindowInputs : winElInput(val)
    /\ UNCHANGED <<producer, pages>>

NextCap == CapBurst \/ CapSingle \/ CapWindowInput

SpecCap == InitRate /\ [][NextCap]_vars

\* C2: after every ingestion call each buffer holds at most 2 x 300 = 600
\* samples, and what it holds are the newest ones: the last sample is the
\* newest one sent and no sample between the first and the last is missing.
C2_HardCap ==
    \A i \in 1..Len(dataByNode) :
        LET arr == dataByNode[i]
        IN /\ Len(arr) <= 600
           /\ arr # <<>> =>
                /\ Last(arr).t = Val(producer.ts) - Val(t0Payload)
                /\ \A k \in 1..(Len(arr) - 1) : arr[k + 1].t = arr[k].t + 1

\* C2 witness: a full buffer whose front was cut by the cap, not by the window
C2_Witness ==
    /\ Len(dataByNode[1]) = 600
    /\ dataByNode[1][1].t > 0
    /\ dataByNode[1][1].t > Last(dataByNode[1]).t - windowSec

-----------------------------------------------------------------------------
(* SpecChannels: payloads and hints that widen the channel set, in both views *)

WidePayloads ==
    {[shape |-> "nodes", timestamp |-> Some(100000), vec |-> Wide(n, 1)] :
        n \in {2, InitNodeCount + 1, InitNodeCount + 2}}
WideBatches ==
    {[ok |-> TRUE, ts |-> <<Some(100000)>>, frames |-> <<Wide(n, 1)>>] :
        n \in {InitNodeCount + 1}}
NodeCountHints == {NaN, Some(InitNodeCount), Some(InitNodeCount + 1),
                   Some(InitNodeCount + 2)}
LatestPayloads ==
    {[ok |-> FALSE, nodes |-> <<>>],
     [ok |-> TRUE, nodes |-> <<[id |-> Whole(0), amplitude |-> Some(1)],
                               [id |-> Whole(InitNodeCount), amplitude |-> Some(2)]>>],
     [ok |-> TRUE, nodes |-> <<[id |-> Whole(1), amplitude |-> NaN]>>]}

ChannelsPushSingle ==
    /\ \E p \in WidePayloads : pushGraphSamples(p) /\ Within(MaxBufLen, MaxIntervals)
    /\ UNCHANGED <<producer, pages>>

ChannelsPushBatch ==
    /\ \E p \in WideBatches : pushGraphBatch(p) /\ Within(MaxBufLen, MaxIntervals)
    /\ UNCHANGED <<producer, pages>>

ChannelsSetNodeCount ==
    /\ \E n \in NodeCountHints : setNodeCount(n)
    /\ UNCHANGED <<producer, pages>>

ChannelsUpdateLatest ==
    /\ \E p \in LatestPayloads : updateNodes(p)
    /\ UNCHANGED <<producer, pages>>

ChannelsLayoutClick == layoutClick /\ UNCHANGED <<producer, pages>>

NextChannels ==
    \/ ChannelsPushSingle
    \/ ChannelsPushBatch
    \/ ChannelsSetNodeCount
    \/ ChannelsUpdateLatest
    \/ ChannelsLayoutClick
    \/ Clear
    \/ Tick

SpecChannels == Init /\ [][NextChannels]_vars

\* C10 (as claimed): in every state a render frame can start in, there is
\* one channel count, and the buffers, chart rows, 3D instances, layout
\* positions, trails, latest amplitudes and waveform parameters of both
\* views all have that many entries.
C10_OneChannelCount ==
    /\ nodeCount3D = nodeCount
    /\ Len(dataByNode) = nodeCount
    /\ Len(rowsEls) = nodeCount
    /\ waveLen = nodeCount
    /\ instancedCount = nodeCount
    /\ nodesLen = nodeCount
    /\ trailCount = nodeCount
    /\ Len(latestAmplitudes) = nodeCount
    /\ waveLen3D = nodeCount

-----------------------------------------------------------------------------
(* SpecOperator: ingestion and channel hints mixed with every operator control *)

OperatorBufLen == 1

OperatorSingles ==
    {[shape |-> "nodes", timestamp |-> Some(100000), vec |-> v] :
        v \in {Wide(InitNodeCount + 1, 1)}}
OperatorBatches ==
    {[ok |-> TRUE, ts |-> <<Some(100000)>>, frames |-> <<Wide(n, 2)>>] :
        n \in {InitNodeCount + 2}}
OperatorHints == {Some(InitNodeCount - 1), Some(InitNodeCount + 1)}
Checkboxes == {0}
CalibrationTables ==
    {<<Line(4, Some(0), "", Some(10), Some(20), Some(30)),
       Line(4, Some(InitNodeCount), "", Some(10), Some(20), Some(30)),
       Line(3, Some(1), "", Some(10), Some(20), None)>>}

OperatorPushSingle ==
    /\ \E p \in OperatorSingles :
          pushGraphSamples(p) /\ Within(OperatorBufLen, MaxIntervals)
    /\ UNCHANGED <<producer, pages>>

OperatorPushBatch ==
    /\ \E p \in OperatorBatches :
          pushGraphBatch(p) /\ Within(OperatorBufLen, MaxIntervals)
    /\ UNCHANGED <<producer, pages>>

OperatorSetNodeCount ==
    /\ \E n \in OperatorHints : setNodeCount(n)
    /\ UNCHANGED <<producer, pages>>

OperatorOpenModal == openModal /\ ~modal.open /\ UNCHANGED <<producer, pages>>

OperatorCheckbox ==
    /\ \E i \in Checkboxes : checkboxClick(i)
    /\ UNCHANGED <<producer, pages>>

OperatorModalClear == modalClearClick /\ UNCHANGED <<producer, pages>>

OperatorModalCancel == modalCancelClick /\ UNCHANGED <<producer, pages>>

OperatorModalOk == modalOkClick /\ UNCHANGED <<producer, pages>>

OperatorLayout == layoutClick /\ UNCHANGED <<producer, pages>>

OperatorCalibration ==
    /\ \E rows \in CalibrationTables : loadNodesFromCsv(rows)
    /\ UNCHANGED <<producer, pages>>

OperatorRowCheck == csvRowCheck /\ UNCHANGED <<producer, pages>>

NextOperator ==
    \/ OperatorPushSingle
    \/ OperatorPushBatch
    \/ OperatorSetNodeCount
    \/ OperatorOpenModal
    \/ OperatorCheckbox
    \/ OperatorModalClear
    \/ OperatorModalCancel
    \/ OperatorModalOk
    \/ OperatorLayout
    \/ OperatorCalibration
    \/ OperatorRowCheck
    \/ Clear

SpecOperator == Init /\ [][NextOperator]_vars

\* The arrays indexed by channel: none of them ever loses an entry
ChannelArrays ==
    <<Len(dataByNode), Len(rowsEls), nodesLen, Len(basePositions),
      Len(latestAmplitudes), waveLen, waveLen3D>>

\* C11: ensureNodeCapacity(n) and setNodeCount(n) with n not above the
\* channel count change nothing, and no step (ingestion, setNodeCount,
\* clear, dialog, layout button, calibration load) lowers a view's channel
\* count or shortens an array indexed by channel.
C11_CountNeverDecreases ==
    /\ \A n \in 0..nodeCount : ensureNodeCapacity(Store2D, n) = Store2D
    /\ [][/\ nodeCount' >= nodeCount
          /\ nodeCount3D' >= nodeCount3D
          /\ \A k \in 1..Len(ChannelArrays) : ChannelArrays'[k] >= ChannelArrays[k]
          /\ UNCHANGED <<nodeCount3D, nodesLen, waveLen3D, latestAmplitudes,
                          basePositions>>
                \/ \A n \in 0..nodeCount3D : ~setNodeCount(Some(n))]_vars

\* C11 witness: both views have grown, a hint below the count has been
\* given, channel 0 is hidden and the buffers were cleared after growth
C11_Witness ==
    /\ nodeCount = InitNodeCount + 2
    /\ nodeCount3D = InitNodeCount + 1
    /\ 0 \notin visibleSet
    /\ basePositions[1].sys = "table"
    /\ layout = "sphere"
    /\ \A i \in 1..Len(dataByNode) : dataByNode[i] = <<>>

-----------------------------------------------------------------------------
(* SpecDialog: the 2D view under ingestion, the channel dialog and clear *)

DialogBufLen == 2
DialogSingles ==
    {[shape |-> "nodes", timestamp |-> Some(100000),
      vec |-> <<Some(1), NaN, Some(3)>>]}
DialogBatches ==
    {[ok |-> TRUE, ts |-> <<Some(100000)>>,
      frames |-> <<Wide(InitNodeCount + 1, 2)>>],
     [ok |-> TRUE, ts |-> <<NaN, Some(100000)>>,
      frames |-> <<Wide(InitNodeCount + 2, 4), <<NaN, Some(5)>>>>]}

DialogPushSingle ==
    /\ \E p \in DialogSingles :
          pushGraphSamples(p) /\ Within(DialogBufLen, MaxIntervals)
    /\ UNCHANGED <<producer, pages>>

DialogPushBatch ==
    /\ \E p \in DialogBatches :
          pushGraphBatch(p) /\ Within(DialogBufLen, MaxIntervals)
    /\ UNCHANGED <<producer, pages>>

NextDialog ==
    \/ DialogPushSingle
    \/ DialogPushBatch
    \/ OperatorOpenModal
    \/ OperatorCheckbox
    \/ OperatorModalClear
    \/ OperatorModalCancel
    \/ OperatorModalOk
    \/ Clear

SpecDialog == Init /\ [][NextDialog]_vars

SetMax(S) == CHOOSE m \in S : \A x \in S : x <= m

\* The frames of a batch that are looked at, and those with a finite timestamp
AllFrames(p) == 1..NFrames(p)
FiniteFrames(p) == {k \in 1..NFrames(p) : IsFinite(p.ts[k])}
WidthOf(p, ks) == SetMax({Len(p.frames[k]) : k \in ks} \cup {0})

IsPrefix(a, b) == Len(a) <= Len(b) /\ SubSeq(b, 1, Len(a)) = a

\* The step from the unprimed to the primed state grew the 2D channel set
\* to n on behalf of batch p: channels nodeCount..n-1 exist, are visible and
\* hold only values of p; the older channels keep their visibility and
\* every sample they had.
GrewTo(p, n) ==
    /\ nodeCount' = n
    /\ Len(dataByNode') = n /\ Len(rowsEls') = n
    /\ \A i \in nodeCount..(n - 1) :
          /\ i \in visibleSet' /\ rowsEls'[i + 1]
          /\ \A j \in 1..Len(dataByNode'[i + 1]) :
                \E k \in FiniteFrames(p) :
                    /\ i + 1 <= Len(p.frames[k])
                    /\ p.frames[k][i + 1] = Some(dataByNode'[i + 1][j].y)
    /\ \A i \in 0..(nodeCount - 1) :
          /\ (i \in visibleSet') = (i \in visibleSet)
          /\ IsPrefix(dataByNode[i + 1], dataByNode'[i + 1])

\* C12 (as claimed): a pushGraphBatch whose frames carry n > nodeCount
\* amplitudes raises the channel count to exactly n, the new channels being
\* visible and starting empty, the old ones keeping samples and visibility.
C12_BatchGrowsToWidth ==
    [][\A p \in DialogBatches :
          (pushGraphBatch(p) /\ WidthOf(p, AllFrames(p)) > nodeCount)
             => GrewTo(p, WidthOf(p, AllFrames(p)))]_vars

\* C12 (amended): the same, counting only the frames whose timestamp is finite
C12_BatchGrowsToFiniteWidth ==
    [][\A p \in DialogBatches :
          (pushGraphBatch(p) /\ WidthOf(p, FiniteFrames(p)) > nodeCount)
             => GrewTo(p, WidthOf(p, FiniteFrames(p)))]_vars

\* C12 witness: a batch grew the set to 16 channels while channel 0 was
\* hidden and held a sample; channel 0 kept it and received the batch's value
C12_Witness ==
    /\ nodeCount = InitNodeCount + 1
    /\ 0 \notin visibleSet
    /\ InitNodeCount \in visibleSet
    /\ Len(dataByNode[1]) = 2 /\ dataByNode[1][1].y = 1 /\ dataByNode[1][2].y = 2
    /\ Len(dataByNode[InitNodeCount + 1]) = 1

-----------------------------------------------------------------------------
(* Malformed payloads *)

\* The session state: channel counts, buffers, clock origins, estimator,
\* latest amplitudes and the live markers
SessionState ==
    <<nodeCount, nodeCount3D, dataByNode, t0Payload, clock0,
      sampleRateEstimator, latestAmplitudes, hasLiveData, lastUpdateMs>>

MalformedSingle(p) == p.shape \in {"null", "none"}

\* C13 (as claimed): a payload that is missing, or whose nodes / amps, ts /
\* frames, or nodes field is missing or not an array, leaves the session
\* state unchanged in pushGraphSamples, pushGraphBatch and updateNodes.
C13_MalformedIgnored ==
    [][/\ \A p \in SinglePayloads :
            (MalformedSingle(p) /\ pushGraphSamples(p))
               => UNCHANGED SessionState
       /\ \A p \in BatchPayloads :
            (~p.ok /\ pushGraphBatch(p)) => UNCHANGED SessionState
       /\ \A p \in LatestPayloads :
            (~p.ok /\ updateNodes(p)) => UNCHANGED SessionState]_vars

-----------------------------------------------------------------------------
(* Non-finite values *)

MaxWidth == InitNodeCount + 2

BufNext(i) == IF i <= Len(dataByNode') THEN dataByNode'[i] ELSE <<>>

\* The frames of batch p that carry a finite value for channel i
FrameHits(p, i) ==
    {k \in 1..NFrames(p) : i <= Len(p.frames[k]) /\ IsFinite(p.frames[k][i])}

\* The step appended exactly one sample to channel i for each frame of p
\* in hits, carrying that frame's value, and nothing else
AppendedFrom(p, i, hits) ==
    /\ IsPrefix(Buf(i), BufNext(i))
    /\ Len(BufNext(i)) = Len(Buf(i)) + Cardinality(hits)
    /\ \A j \in (Len(Buf(i)) + 1)..Len(BufNext(i)) :
          \E k \in hits : p.frames[k][i] = Some(BufNext(i)[j].y)

AppendedSingle(p, i) ==
    /\ IsPrefix(Buf(i), BufNext(i))
    /\ IF SingleHits(p, i)
       THEN /\ Len(BufNext(i)) = Len(Buf(i)) + 1
            /\ p.vec[i] = Some(Last(BufNext(i)).y)
       ELSE BufNext(i) = Buf(i)

\* C14 (as claimed): in pushGraphSamples and pushGraphBatch, channel i
\* receives a sample for an amplitude vector exactly when the vector's
\* value at i is finite, whatever the other entries are.
C14_SampleIffFinite ==
    [][/\ \A p \in DialogSingles : pushGraphSamples(p) =>
            \A i \in 1..MaxWidth : AppendedSingle(p, i)
       /\ \A p \in DialogBatches : pushGraphBatch(p) =>
            \A i \in 1..MaxWidth : AppendedFrom(p, i, FrameHits(p, i))]_vars

\* C14 (amended): the same for the vectors that are processed, that is
\* every single payload's vector and every batch frame with a finite timestamp
C14_SampleIffFiniteInTimedFrame ==
    [][/\ \A p \in DialogSingles : pushGraphSamples(p) =>
            \A i \in 1..MaxWidth : AppendedSingle(p, i)
       /\ \A p \in DialogBatches : pushGraphBatch(p) =>
            \A i \in 1..MaxWidth : AppendedFrom(p, i, BatchHits(p, i))]_vars

\* C14 witness: vectors (1, NaN, 3) and (NaN, 5) were stored: channel 1
\* holds 5 only, channel 2 holds 3, channel 0 holds 1
C14_Witness ==
    /\ Len(dataByNode[1]) = 1 /\ dataByNode[1][1].y = 1
    /\ Len(dataByNode[2]) = 1 /\ dataByNode[2][1].y = 5
    /\ Len(dataByNode[3]) = 1 /\ dataByNode[3][1].y = 3

-----------------------------------------------------------------------------
(* SpecFrames: ingestion calls in progress, render frames and clear *)

FramesBufLen == 3
FramesBatches ==
    {[ok |-> TRUE, ts |-> <<Some(100000), Some(100700)>>,
      frames |-> <<<<Some(1)>>, <<Some(2), Some(2)>>>>]}
FramesSingles ==
    {[shape |-> "nodes", timestamp |-> Some(100000),
      vec |-> <<Some(3), Some(3)>>]}

FramesBeginBatch ==
    /\ \E p \in FramesBatches :
          /\ Len(dataByNode[1]) + NFrames(p) <= FramesBufLen
          /\ beginBatch(p)
    /\ UNCHANGED <<producer, pages>>

FramesStepBatch == stepBatch /\ UNCHANGED <<producer, pages>>

FramesEndBatch == endBatch /\ UNCHANGED <<producer, pages>>

FramesBeginSingle ==
    /\ \E p \in FramesSingles :
          /\ Len(dataByNode[1]) + 1 <= FramesBufLen
          /\ beginSingle(p)
    /\ UNCHANGED <<producer, pages>>

FramesStepSingle == stepSingle /\ UNCHANGED <<producer, pages>>

FramesEndSingle == endSingle /\ UNCHANGED <<producer, pages>>

FramesRender == render /\ UNCHANGED <<producer, pages>>

FramesClear == task = None /\ clearAllData /\ UNCHANGED <<producer, pages>>

NextFrames ==
    \/ FramesBeginBatch
    \/ FramesStepBatch
    \/ FramesEndBatch
    \/ FramesBeginSingle
    \/ FramesStepSingle
    \/ FramesEndSingle
    \/ FramesRender
    \/ FramesClear

SpecFrames == Init /\ [][NextFrames]_vars

-----------------------------------------------------------------------------
(* Clear *)

\* C16: the clear button empties every channel's buffer and changes neither
\* the channel counts, the visible set (and the rows shown), the display
\* window, the layout and base positions, the clock origins nor the
\* estimator; with one visible channel, that channel alone stays visible.
C16_ClearOnlyEmptiesBuffers ==
    [][clearAllData =>
         /\ \A i \in 1..Len(dataByNode') : dataByNode'[i] = <<>>
         /\ UNCHANGED <<nodeCount, nodeCount3D, visibleSet, rowsEls, windowSec,
                        winElValue, layout, basePositions, t0Payload, clock0,
                        sampleRateEstimator>>
         /\ \A i \in 0..(nodeCount - 1) :
               visibleSet = {i} =>
                  /\ visibleSet' = {i}
                  /\ \A j \in 1..Len(rowsEls') : rowsEls'[j] = (j = i + 1)
                  /\ dataByNode'[i + 1] = <<>>]_vars

\* C16 witness: data had arrived for 17 channels, only channel 0 was
\* selected, the layout was changed, and the buffers are empty again
C16_Witness ==
    /\ nodeCount = InitNodeCount + 2
    /\ visibleSet = {0}
    /\ layout = "grid"
    /\ t0Payload = Some(100000)
    /\ sampleRateEstimator.lastTime = Some(100000)
    /\ externalActive
    /\ \A i \in 1..Len(dataByNode) : dataByNode[i] = <<>>

-----------------------------------------------------------------------------
(* Visibility *)

VisibleSetOk == visibleSet # {} /\ visibleSet \subseteq 0..(nodeCount - 1)

\* C17: the visible set is always a non-empty subset of the existing
\* channel indices, and clicking OK with no box checked changes neither the
\* visible set nor the rows shown.
C17_VisibleSetNonEmpty ==
    /\ VisibleSetOk
    /\ [][/\ VisibleSetOk'
          /\ (modalOkClick /\ modal.checked = {})
                => UNCHANGED <<visibleSet, rowsEls>>]_vars

\* C17 witness: channel 0 is hidden, the set has grown to 16 channels, and
\* the dialog is open with no box checked
C17_Witness ==
    /\ modal.open /\ modal.checked = {} /\ modal.count = InitNodeCount + 1
    /\ visibleSet = 1..InitNodeCount
    /\ nodeCount = InitNodeCount + 1

\* The 2D store with every existing channel visible
AllVisible == [Store2D EXCEPT !.visibleSet = 0..(nodeCount - 1),
                              !.rowsEls = [i \in 1..Len(rowsEls) |-> TRUE]]

\* C18: a step that changes which existing channels are visible changes no
\* buffer, and every ingestion call leaves the buffers it would have left
\* had all channels been visible.
C18_HiddenChannelsKeepData ==
    [][/\ (visibleSet' \cap 0..(nodeCount - 1)) # visibleSet
            => dataByNode' = dataByNode
       /\ \A p \in DialogSingles : pushGraphSamples(p) =>
            dataByNode' =
               pushVector(ensureNodeCapacity(AllVisible, Len(p.vec)), p.vec,
                          SingleT(p), SingleOrigin(p), windowSec).dataByNode
       /\ \A p \in DialogBatches : pushGraphBatch(p) =>
            dataByNode' =
               batchFrames(AllVisible, p, 1, NFrames(p),
                           BatchT0(p, NFrames(p)), windowSec').dataByNode]_vars

\* C18 witness: channel 0 was hidden in a dialog built for 15 channels and
\* holds the values of a single payload and of the 16-wide batch
C18_Witness ==
    /\ 0 \notin visibleSet /\ ~rowsEls[1]
    /\ ~modal.open /\ modal.count = InitNodeCount
    /\ nodeCount = InitNodeCount + 1
    /\ Len(dataByNode[1]) = 2 /\ dataByNode[1][1].y = 2 /\ dataByNode[1][2].y = 1

-----------------------------------------------------------------------------
(* SpecLive: the 3D view under updateNodes, the host clock, frames and pause *)

LiveClockTimes == {250, 500, 501, 750, 1001}
LiveUpdates ==
    {[ok |-> FALSE, nodes |-> <<>>],
     [ok |-> TRUE, nodes |-> <<[id |-> Whole(0), amplitude |-> Some(3)]>>],
     [ok |-> TRUE, nodes |-> <<>>]}
Gains == {1, 2}
LiveFrames == 2
FrameElapsed == {0, 1}

\* The source calls updateNodes; producer.ts keeps the time of its last
\* accepted payload
LiveUpdate ==
    \E p \in LiveUpdates :
        /\ updateNodes(p)
        /\ UNCHANGED pages
        /\ producer' = IF p.ok
                       THEN [producer EXCEPT !.ts = Some(perfNow), !.sent = 1]
                       ELSE producer

LiveTick == (\E now \in LiveClockTimes : tick(now)) /\ UNCHANGED <<producer, pages>>

\* The frames stop before a trail holds more points than the bound
TrailsWithin(maxPoints) ==
    \A i \in 1..Len(trails') : Len(trails'[i].written) <= maxPoints

\* The clock is kept finite: time passes inside a frame only if the frame
\* starts on one of the clock times
LiveAnimate ==
    /\ \E g \in Gains, l \in BOOLEAN, e \in FrameElapsed :
          /\ e = 0 \/ perfNow \in LiveClockTimes
          /\ animate(g, l, e, FALSE)
          /\ TrailsWithin(LiveFrames)
    /\ UNCHANGED <<producer, pages>>

LiveToggle == toggle3D /\ UNCHANGED <<producer, pages>>

NextLive == LiveUpdate \/ LiveTick \/ LiveAnimate \/ LiveToggle

SpecLive == Init /\ [][NextLive]_vars

\* A frame of the running 3D view starts in this step
FrameStep ==
    /\ running3D
    /\ \E g \in Gains, l \in BOOLEAN, e \in FrameElapsed :
          animate(g, l, e, FALSE)

\* An accepted update exists and the newest one is at most 500 ms old
FreshAt(now) == producer.ts # None /\ now - Val(producer.ts) <= 500

\* C19 (as claimed): a frame is Live exactly when the newest accepted
\* update is at most 500 ms old, and the first frame after an accepted
\* update is Live.
C19_LiveIffFreshAndNextFrameLive ==
    [][FrameStep =>
         /\ drawn'.live = FreshAt(perfNow)
         /\ (producer.ts # None /\ drawn.at < Val(producer.ts)) => drawn'.live]_vars

\* C19 (amended): no update has been accepted at the start, and a frame is
\* Live exactly when the newest accepted update is at most 500 ms old at
\* the time the frame starts.
C19_LiveIffFresh ==
    /\ producer.ts = None => ~hasLiveData
    /\ [][FrameStep => drawn'.live = FreshAt(perfNow)]_vars

\* C19 witness: the last frame, 500 ms after the newest update, was Live,
\* and 501 ms have now passed since that update
C19_Witness ==
    /\ drawn.live /\ drawn.at = 750
    /\ producer.ts = Some(250) /\ producer.sent = 1
    /\ perfNow = 1001

\* C20 (as claimed): in an Idle frame every instance, trail point and label
\* has amplitude term 0, in a Live frame latestAmplitude x gain, and the
\* three agree within the frame.
C20_OneOffsetPerFrame ==
    [][\A g \in Gains, l \in BOOLEAN, e \in FrameElapsed :
          (running3D /\ animate(g, l, e, FALSE)) =>
             \A i \in 1..nodeCount3D :
                LET a == IF drawn'.live THEN latestAmplitudes[i] * g ELSE 0
                IN /\ drawn'.inst[i] = a
                   /\ drawn'.trail[i] = a
                   /\ l => drawn'.label[i] = a]_vars

-----------------------------------------------------------------------------
(* SpecLoops: the two render loops under pause / resume, frames that throw, *)
(* and ingestion into both views                                            *)

LoopsFrames == 2
LoopsSingles ==
    {[shape |-> "nodes", timestamp |-> Some(100000), vec |-> <<Some(1)>>]}
LoopsUpdates ==
    {[ok |-> TRUE, nodes |-> <<[id |-> Whole(0), amplitude |-> Some(3)]>>]}

LoopsPushSingle ==
    /\ \E p \in LoopsSingles :
          pushGraphSamples(p) /\ Within(MaxBufLen, MaxIntervals)
    /\ UNCHANGED <<producer, pages>>

LoopsUpdate ==
    /\ \E p \in LoopsUpdates : updateNodes(p)
    /\ UNCHANGED <<producer, pages>>

LoopsRender == render /\ UNCHANGED <<producer, pages>>

LoopsAnimate ==
    /\ \E threw \in BOOLEAN :
          animate(1, FALSE, 0, threw) /\ TrailsWithin(LoopsFrames)
    /\ UNCHANGED <<producer, pages>>

LoopsToggle2D == toggle2D /\ UNCHANGED <<producer, pages>>

LoopsToggle3D == toggle3D /\ UNCHANGED <<producer, pages>>

NextLoops ==
    \/ LoopsPushSingle
    \/ LoopsUpdate
    \/ LoopsRender
    \/ LoopsAnimate
    \/ LoopsToggle2D
    \/ LoopsToggle3D

SpecLoops == Init /\ [][NextLoops]_vars

\* C21: between two frames each view has exactly one scheduled frame
\* callback, whether the last frame completed or threw, with or without
\* data and paused or not: neither loop stops, neither multiplies.
C21_OneNextFrame == renderPending = 1 /\ animatePending = 1

\* C21 witness: both views are paused, data has arrived in both, frames of
\* both views have thrown and frames of the 3D view have drawn
C21_Witness ==
    /\ ~running2D /\ ~running3D
    /\ chart.error /\ drawn.threw
    /\ Len(chart.data[1]) = 1 /\ dataByNode[1] # chart.data[1]
    /\ hasLiveData /\ Len(trails[1].written) = 2

\* A frame of the 3D view that does not throw
FrameOf3D == \E threw \in {FALSE} : animate(1, FALSE, 0, threw)

\* C22 (as claimed): a frame of a paused view changes neither the chart,
\* the instances nor the trails; pause and resume change no buffer, channel
\* count, display window or estimator state; and an ingestion call writes
\* the buffers the same way whether or not the views are paused.
C22_PausedFramesChangeNothing ==
    [][/\ (~running2D /\ render) => chart'.data = chart.data
       /\ (~running3D /\ FrameOf3D) => UNCHANGED <<drawn, basePositions, trails>>
       /\ (toggle2D \/ toggle3D) =>
             UNCHANGED <<dataByNode, nodeCount, nodeCount3D, windowSec,
                         sampleRateEstimator, latestAmplitudes>>
       /\ \A p \in LoopsSingles : pushGraphSamples(p) =>
             dataByNode' =
                pushVector(ensureNodeCapacity(Store2D, Len(p.vec)), p.vec,
                           SingleT(p), SingleOrigin(p), windowSec).dataByNode]_vars

-----------------------------------------------------------------------------
(* SpecScene: the 3D scene under calibration tables, layout changes, channel *)
(* growth, frames and pause                                                  *)

SceneFrames == 2
SceneHints == {Some(InitNodeCount + 1)}

\* Rows 0 .. InitNodeCount-1, each "i, 10(i+1), 20, 30"
SceneRows ==
    [i \in 1..InitNodeCount |-> Line(4, Some(i - 1), "", Some(10 * i), Some(20), Some(30))]

\* The line "id,x,y,z" and the line "index,x,y,z"
IdHeaderLine == Line(4, None, "id", None, None, None)
IndexHeaderLine == Line(4, None, "index", None, None, None)

\* "0,10,20,30" / "1.5,11,21,31" / "99,12,22,32" / "2,13,23" /
\* "3,14,abc,34" / "-1,15,25,35" / "4,16,26,36"
MixedRows ==
    <<Line(4, Some(0), "", Some(10), Some(20), Some(30)),
      Line(4, Some(1), ".5", Some(11), Some(21), Some(31)),
      Line(4, Some(99), "", Some(12), Some(22), Some(32)),
      Line(3, Some(2), "", Some(13), Some(23), None),
      Line(4, Some(3), "", Some(14), None, Some(34)),
      Line(4, Some(0 - 1), "", Some(15), Some(25), Some(35)),
      Line(4, Some(4), "", Some(16), Some(26), Some(36))>>

SceneTables ==
    {<<IdHeaderLine>> \o SceneRows,
     <<IndexHeaderLine>> \o SceneRows,
     SceneRows,
     <<IndexHeaderLine>> \o MixedRows,
     <<Line(4, Some(0), "", Some(10), Some(20), Some(30))>>}

SceneSetNodeCount == (\E n \in SceneHints : setNodeCount(n)) /\ UNCHANGED <<producer, pages>>

SceneLayout == layoutClick /\ UNCHANGED <<producer, pages>>

SceneLoad == (\E t \in SceneTables : loadNodesFromCsv(t)) /\ UNCHANGED <<producer, pages>>

SceneRowCheck == csvRowCheck /\ UNCHANGED <<producer, pages>>

SceneDefaultCsv ==
    /\ \E found \in BOOLEAN, t \in SceneTables : tryLoadDefaultCsv(found, t)
    /\ UNCHANGED <<producer, pages>>

SceneAnimate ==
    /\ animate(1, FALSE, 0, FALSE) /\ TrailsWithin(SceneFrames)
    /\ UNCHANGED <<producer, pages>>

SceneToggle == toggle3D /\ UNCHANGED <<producer, pages>>

NextScene ==
    \/ SceneSetNodeCount
    \/ SceneLayout
    \/ SceneLoad
    \/ SceneRowCheck
    \/ SceneDefaultCsv
    \/ SceneAnimate
    \/ SceneToggle

SpecScene == Init /\ [][NextScene]_vars

\* A frame of the 3D view
SceneFrame == animate(1, FALSE, 0, FALSE)

\* C23 (as claimed): a channel whose base position came from a calibration
\* table still has that position after every later frame.
C23_TablePositionsSurviveFrames ==
    [][SceneFrame =>
         \A i \in 1..nodeCount3D :
            basePositions[i].sys = "table" => basePositions'[i] = basePositions[i]]_vars

\* The header row of the table format: its first field is a word
IsHeaderRow(line) == line.first.lead = None /\ line.first.rest \in {"id", "index"}

\* The entries of a table: its rows without the optional header row
Entries(t) == IF t # <<>> /\ IsHeaderRow(t[1]) THEN Len(t) - 1 ELSE Len(t)

\* C24 (as claimed): the warning is raised exactly when the number of
\* entries of the table, the header row not counted, differs from the
\* channel count; the table is applied in both cases.
C24_WarningIffEntriesDiffer ==
    [][\A t \in SceneTables :
          /\ (csvUi.file = Some(t) /\ csvRowCheck) =>
                (csvUi'.alert = "raised") = (Entries(t) # nodeCount3D)
          /\ tryLoadDefaultCsv(TRUE, t) =>
                /\ (csvUi'.alert = "raised") = (Entries(t) # nodeCount3D)
                /\ basePositions' = applyPositions(parseCsvText(t))
          /\ loadNodesFromCsv(t) =>
                basePositions' = applyPositions(parseCsvText(t))]_vars

\* A row the table format accepts for channel i: four fields, an integer
\* index equal to i within the channel count, finite coordinates
Accepted(row, i) ==
    /\ row.cols >= 4
    /\ row.first.lead # None /\ row.first.rest = ""
    /\ Val(row.first.lead) = i /\ i >= 0 /\ i < nodeCount3D
    /\ IsFinite(row.x) /\ IsFinite(row.y) /\ IsFinite(row.z)

\* C25 (as claimed): loading a table gives every channel with an accepted
\* row the position (x, z, y) of its last accepted row and leaves every
\* other channel's position alone; all other rows are skipped.
C25_OnlyAcceptedRowsApply ==
    [][\A t \in SceneTables :
          loadNodesFromCsv(t) =>
             \A i \in 1..nodeCount3D :
                LET ks == {k \in 1..Len(t) : Accepted(t[k], i - 1)}
                IN IF ks = {}
                   THEN basePositions'[i] = basePositions[i]
                   ELSE LET row == t[CHOOSE k \in ks : \A j \in ks : j <= k]
                        IN basePositions'[i] =
                              Position("table", Val(row.x), Val(row.z), Val(row.y))]_vars

\* The rule the layout name selects
SchemeOf(l) == getLayoutPositions(l)[1].sys

-----------------------------------------------------------------------------
(* SpecLayout: the four layouts for every configured channel count *)

MaxLayoutCount == 50
LayoutFrames == 1
LayoutCounts == 1..MaxLayoutCount
Schemes == {"grid", "helix", "sphere", "cylinder"}

\* The radius of the sphere layout, 0.25 (line 660-662)
SphereRadius == Frac(1, 4)

InitLayout == \E n \in LayoutCounts : InitScene({5000}, n)

LayoutClick == layoutClick /\ UNCHANGED <<producer, pages>>

LayoutAnimate ==
    /\ animate(1, FALSE, 0, FALSE) /\ TrailsWithin(LayoutFrames)
    /\ UNCHANGED <<producer, pages>>

LayoutGrow == setNodeCount(Some(MaxLayoutCount)) /\ UNCHANGED <<producer, pages>>

LayoutToggle == toggle3D /\ UNCHANGED <<producer, pages>>

NextLayouts == LayoutClick \/ LayoutAnimate \/ LayoutGrow \/ LayoutToggle

SpecLayout == InitLayout /\ [][NextLayouts]_vars

\* The square of the distance of an axis point from the origin
Norm2(p) == FAdd(p.rad2, FMul(p.h, p.h))

\* C27: for each of the four schemes and the present channel count n,
\* getLayoutPositions returns n positions, position i being the scheme's
\* point for (i, n), no two of them the same point, and for the sphere
\* none farther from the origin than the sphere's radius; a frame puts
\* every channel on that position whatever the scene held before.
C27_LayoutsDistinctInsideSphere ==
    /\ \A s \in Schemes :
          LET ps == getLayoutPositions(s)
              pts == [i \in 1..Len(ps) |-> LayoutPoint(ps[i])]
          IN /\ Len(ps) = nodeCount3D
             /\ \A i \in 1..Len(ps) : ps[i] = Position(s, i - 1, nodeCount3D, 0)
             /\ \A i, j \in 1..Len(ps) : i # j => pts[i] # pts[j]
             /\ s = "sphere" =>
                   \A i \in 1..Len(ps) :
                      FLeq(Norm2(pts[i]), FMul(SphereRadius, SphereRadius))
    /\ [][(running3D /\ animate(1, FALSE, 0, FALSE)) =>
             \A i \in 1..nodeCount3D :
                basePositions'[i] = Position(SchemeOf(layout), i - 1, nodeCount3D, 0)]_vars

\* C27 witness: a frame has put 50 channels on the sphere
C27_Witness ==
    /\ nodeCount3D = 50
    /\ layout = "sphere"
    /\ \A i \in 1..50 : basePositions[i] = Position("sphere", i - 1, 50, 0)
    /\ Len(trails) = 50 /\ Len(trails[50].written) = 1

-----------------------------------------------------------------------------
(* SpecWindow: the display window under operator entries of any size and *)
(* the estimator's recommendations                                        *)

\* The values the window control can hold when the page starts: the
\* display window is bounded to the configured range
WindowStartValues == {MinWindowMs, MaxWindowMs}

\* Values the operator enters, ms
WindowEntries == {400, 2000, 60001}

\* The periods the source sends with: the first and the third of Periods
WindowModes == {1, 3}

InitWindow == InitWith(WindowStartValues)

WindowBatch == \E m \in WindowModes : SourceSends(m)

WindowEntry ==
    /\ \E val \in WindowEntries : winElInput(val)
    /\ UNCHANGED <<producer, pages>>

NextWindow == WindowBatch \/ WindowEntry

SpecWindow == InitWindow /\ [][NextWindow]_vars

-----------------------------------------------------------------------------
(* Estimator observations and capacity growth per ingestion call *)

\* The estimator after one observation of timestamp ts
Observed(ts) ==
    estimateSampleRate(sampleRateEstimator, windowSec, winElValue, ts).est

\* C29 (as claimed): every pushGraphSamples call that delivers a vector
\* with a finite timestamp, and every pushGraphBatch call whose first
\* timestamp is finite, makes exactly one estimator observation, of the
\* payload's (first) timestamp.
C29_OneObservationPerCall ==
    [][/\ \A p \in SinglePayloads :
             (/\ pushGraphSamples(p)
              /\ p.shape \in {"nodes", "amps"}
              /\ IsFinite(p.timestamp)) =>
                sampleRateEstimator' = Observed(p.timestamp)
       /\ \A p \in BatchPayloads :
             (/\ pushGraphBatch(p)
              /\ Min(Len(p.ts), Len(p.frames)) > 0
              /\ IsFinite(p.ts[1])) =>
                sampleRateEstimator' = Observed(p.ts[1])]_vars

\* The last item of payload.nodes that addresses channel id with a finite
\* amplitude, 0 if there is none
LastFor(p, id) ==
    SetMax({0} \cup {k \in 1..Len(p.nodes) :
                        p.nodes[k].id = id /\ IsFinite(p.nodes[k].amplitude)})

\* C30 (as claimed): every ingestion call leaves the channel count at least
\* as large as the payload is wide, and every finite value the payload
\* addresses to a channel is written to that channel.
C30_GrownBeforeWritten ==
    [][/\ \A p \in WidePayloads :
             pushGraphSamples(p) =>
                /\ nodeCount' >= Len(p.vec)
                /\ \A i \in 1..Len(p.vec) :
                      IsFinite(p.vec[i]) =>
                         /\ dataByNode'[i] # <<>>
                         /\ Last(dataByNode'[i]).y = Val(p.vec[i])
       /\ \A p \in WideBatches :
             pushGraphBatch(p) =>
                /\ nodeCount' >= Len(p.frames[1])
                /\ \A i \in 1..Len(p.frames[1]) :
                      IsFinite(p.frames[1][i]) =>
                         /\ dataByNode'[i] # <<>>
                         /\ Last(dataByNode'[i]).y = Val(p.frames[1][i])
       /\ \A p \in LatestPayloads :
             (p.ok /\ updateNodes(p)) =>
                \A k \in 1..Len(p.nodes) :
                   LET id == p.nodes[k].id
                   IN (id.den = 1 /\ id.num >= 0 /\ LastFor(p, id) = k) =>
                         /\ nodeCount3D' > id.num
                         /\ latestAmplitudes'[id.num + 1] = Val(p.nodes[k].amplitude)]_vars

-----------------------------------------------------------------------------
(* SpecSteady: one channel fed at a steady 10 ms spacing under a fixed window *)

SteadyCalls == 3
SteadySpacing == 10
SteadyBursts == {200, 400, 2 * maxSamplesPerNode + 1}
SteadyWindows == {500, 5000, 60000}

SteadyBase == IF producer.ts = None THEN StartTimestamp ELSE Val(producer.ts)

\* The source sends n frames, SteadySpacing ms apart, in one batch
SteadyBurst ==
    \E n \in SteadyBursts :
        /\ producer.sent < SteadyCalls
        /\ UNCHANGED pages
        /\ producer' = [producer EXCEPT !.ts = Some(SteadyBase + n * SteadySpacing),
                                        !.sent = producer.sent + 1]
        /\ pushGraphBatch([ok |-> TRUE,
                           ts |-> [k \in 1..n |-> Some(SteadyBase + k * SteadySpacing)],
                           frames |-> [k \in 1..n |-> <<Some(1)>>]])

\* The source sends the next sample through pushGraphSamples
SteadySingle ==
    /\ producer.sent < SteadyCalls
    /\ UNCHANGED pages
    /\ producer' = [producer EXCEPT !.ts = Some(SteadyBase + SteadySpacing),
                                    !.sent = producer.sent + 1]
    /\ pushGraphSamples([shape |-> "nodes",
                         timestamp |-> Some(SteadyBase + SteadySpacing),
                         vec |-> <<Some(1)>>])

InitSteady == InitWith(SteadyWindows)

NextSteady == SteadyBurst \/ SteadySingle

SpecSteady == InitSteady /\ [][NextSteady]_vars

\* The number of samples pushed to channel 0 so far, and the newest time
SteadyPushed == (SteadyBase - StartTimestamp) \div SteadySpacing
SteadyLatest == (SteadyPushed - 1) * SteadySpacing

\* C31: the buffer of channel 0 is the run of pushed samples with
\* t >= latest - W, cut to the newest 600: its length is the smallest of
\* the number pushed, W / spacing + 1 and 600, it ends at the newest sample
\* and misses none in between; the window is the one the session began with.
C31_WindowThenCap ==
    LET arr == dataByNode[1]
        len == Min(SteadyPushed, Min(windowSec \div SteadySpacing + 1,
                                     2 * maxSamplesPerNode))
    IN /\ Len(arr) = len
       /\ \A j \in 1..len :
             arr[j].t = SteadyLatest - (len - j) * SteadySpacing
       /\ \A j \in 1..len : arr[j].t >= SteadyLatest - windowSec
       /\ len = SteadyPushed
             \/ len = 2 * maxSamplesPerNode
             \/ arr[1].t - SteadySpacing < SteadyLatest - windowSec

\* C31 witness: 800 samples pushed under a 5 s window leave the 501 of the
\* last 5 s
C31_Witness ==
    /\ windowSec = 5000
    /\ SteadyPushed = 800
    /\ Len(dataByNode[1]) = 501
    /\ dataByNode[1][1].t = SteadyLatest - 5000

-----------------------------------------------------------------------------
(* SpecIntervals: the estimator's interval history under clock resets, *)
(* repeated timestamps and gaps                                         *)

MaxObservations == 24
MaxRejected == 2

\* Differences the estimator rejects: a clock reset, a repeated timestamp,
\* exactly 10 s, more than 10 s
RejectedSteps == {0 - 5, 0, MaxIntervalMs, 12000}

\* The source's next timestamp is d ms after its last one; the batch holds
\* one frame without a finite value.  producer.mode counts rejected steps.
SourceSteps(d) ==
    LET ts == IF producer.ts = None THEN StartTimestamp ELSE Val(producer.ts) + d
    IN /\ producer.sent < MaxObservations
       /\ UNCHANGED pages
       /\ producer' = [producer EXCEPT
                          !.ts = Some(ts),
                          !.sent = producer.sent + 1,
                          !.mode = IF d \in RejectedSteps THEN producer.mode + 1
                                   ELSE producer.mode]
       /\ pushGraphBatch([ok |-> TRUE, ts |-> <<Some(ts)>>, frames |-> <<<<NaN>>>>])

\* A step of producer.sent + 1 ms: every accepted interval is different
IntervalsAccepted == SourceSteps(producer.sent + 1)

IntervalsRejected ==
    /\ producer.ts # None /\ producer.mode < MaxRejected
    /\ \E d \in RejectedSteps : SourceSteps(d)

NextIntervals == IntervalsAccepted \/ IntervalsRejected

SpecIntervals == Init /\ [][NextIntervals]_vars

\* The last n elements of s
Newest(s, n) == IF Len(s) <= n THEN s ELSE SubSeq(s, Len(s) - n + 1, Len(s))

\* C32: the estimator remembers the last observed timestamp whether or not
\* the difference to it was accepted; an observation d after the last one
\* appends d to the history exactly if 0 < d < 10 s and otherwise leaves the
\* history alone; the history is cut to its newest 20 entries.
C32_HistoryOfAcceptedIntervals ==
    /\ sampleRateEstimator.lastTime = producer.ts
    /\ Len(sampleRateEstimator.sampleTimes) <= 20
    /\ [][\A d \in RejectedSteps \cup {producer.sent + 1} :
             (SourceSteps(d) /\ producer.ts # None) =>
                sampleRateEstimator'.sampleTimes =
                   IF 0 < d /\ d < 10000
                   THEN Newest(Append(sampleRateEstimator.sampleTimes, d), 20)
                   ELSE sampleRateEstimator.sampleTimes]_vars

\* C32 witness: two differences were rejected, the history is full, its
\* oldest intervals were dropped, and it skips the two rejected ones
C32_Witness ==
    LET times == sampleRateEstimator.sampleTimes
    IN /\ producer.mode = 2
       /\ Len(times) = 20
       /\ times[1] > 2
       /\ times[20] - times[1] = 21
       /\ times[20] = producer.sent

-----------------------------------------------------------------------------
(* Frames and the Time-Window Store *)

\* The Time-Window Store and what ingestion keeps beside it
StoreState ==
    <<dataByNode, nodeCount, nodeCount3D, windowSec, winElValue, clock0,
      t0Payload, sampleRateEstimator, latestAmplitudes>>

\* C33: a frame of the 2D view and a frame of the 3D view, drawn, paused or
\* thrown, leave every buffer, the channel counts, the display window, the
\* clock origins and the estimator as they were; a buffer changes only in a
\* pushGraphSamples call.
C33_FramesWriteNoBuffer ==
    [][/\ render => UNCHANGED StoreState
       /\ (\E threw \in BOOLEAN : animate(1, FALSE, 0, threw)) => UNCHANGED StoreState
       /\ dataByNode' # dataByNode => \E p \in LoopsSingles : pushGraphSamples(p)]_vars

\* C33 witness: both views have drawn the data that arrived, and the buffers
\* still hold it
C33_Witness ==
    /\ Len(dataByNode[1]) = 2
    /\ chart.data = dataByNode
    /\ hasLiveData /\ drawn.live
    /\ Len(trails[1].written) = 2
    /\ running2D /\ running3D

-----------------------------------------------------------------------------
(* The trail drawn *)

\* The positions a trail has recorded, oldest first; there are
\* min(k, TrailLength) of them after k updates
Recorded(tr) ==
    IF Len(tr.written) < TrailLength THEN tr.written
    ELSE SubSeq(tr.written, tr.idx + 1, TrailLength) \o SubSeq(tr.written, 1, tr.idx)

\* C34 (as claimed): the line of every trail that was updated shows the
\* positions recorded for its channel, the newest min(k, 20) of them,
\* oldest first, and nothing else; the write index is within 0 .. 19.
C34_TrailShowsRecordedPositions ==
    \A i \in 1..Len(trails) :
        /\ trails[i].idx \in 0..(TrailLength - 1)
        /\ trails[i].written # <<>> =>
              \A j \in 1..Len(trailOrdered(trails[i])) :
                 /\ j <= Len(Recorded(trails[i]))
                 /\ trailOrdered(trails[i])[j] = Recorded(trails[i])[j]

-----------------------------------------------------------------------------
(* SpecChart: what a frame of the 2D view draws *)

ChartBufLen == 2
ChartSingles ==
    [shape : {"nodes"},
     timestamp : {Some(100000), Some(100300), Some(100700)},
     vec : {<<Some(1), Some(0 - 2)>>, <<Some(1), Some(2)>>}]
ChartWindowInputs == {500}

\* The source's timestamps never go back
ChartPushSingle ==
    \E p \in ChartSingles :
        /\ IF producer.ts = None THEN TRUE
           ELSE Val(p.timestamp) >= Val(producer.ts)
        /\ UNCHANGED pages
        /\ producer' = [producer EXCEPT !.ts = p.timestamp]
        /\ pushGraphSamples(p) /\ Within(ChartBufLen, MaxIntervals)

ChartWindowInput ==
    /\ \E val \in ChartWindowInputs : winElInput(val)
    /\ UNCHANGED <<producer, pages>>

ChartClear == clearAllData /\ UNCHANGED <<producer, pages>>

ChartRender == render /\ UNCHANGED <<producer, pages>>

NextChart == ChartPushSingle \/ ChartWindowInput \/ ChartClear \/ ChartRender

SpecChart == Init /\ [][NextChart]_vars

\* A frame of the 2D view that draws
FrameDraws == render /\ chart' = renderOutput(FALSE)

\* The values of a buffer
ValuesOf(arr) == {arr[k].y : k \in 1..Len(arr)}

\* C35 (as claimed): the frame draws the placeholder, no line and the
\* fallback range for a channel with fewer than 2 samples or with equal
\* values only, and otherwise the line, no placeholder and the range
\* [min - 0.15 (max - min), max + 0.15 (max - min)] of that channel's values.
C35_PlaceholderOrPaddedLine ==
    [][FrameDraws =>
         \A i \in 1..nodeCount :
            (i - 1) \in visibleSet =>
               LET arr == dataByNode[i]
                   row == chart'.rows[i]
                   lo == SetMax({0 - y : y \in ValuesOf(arr)})
                   hi == SetMax(ValuesOf(arr))
               IN IF Len(arr) < 2 \/ Cardinality(ValuesOf(arr)) = 1
                  THEN /\ row.placeholder /\ ~row.line
                       /\ row.yMin = 0 - 2 /\ row.yMax = 2
                  ELSE /\ row.line /\ ~row.placeholder
                       /\ row.yMin = 100 * (0 - lo) - 15 * (hi + lo)
                       /\ row.yMax = 100 * hi + 15 * (hi + lo)]_vars

\* The times of all samples in the buffers
TimesOf == UNION {{dataByNode[i][k].t : k \in 1..Len(dataByNode[i])} : i \in 1..nodeCount}

\* C36 (as claimed): with data in the buffers the frame shows
\* [max(first, latest - W), latest] if the data span first .. latest is at
\* least W wide, and otherwise the W wide range centred on the middle of the
\* span; in both cases xMin <= xMax and xMax - xMin <= W.  (Times doubled.)
C36_RangeIsWindowOnData ==
    [][(FrameDraws /\ TimesOf # {}) =>
         LET latest == SetMax(TimesOf)
             first == 0 - SetMax({0 - t : t \in TimesOf})
             x == Val(chart'.x)
         IN /\ IF latest - first >= windowSec
               THEN /\ x.xMax = 2 * latest
                    /\ x.xMin = 2 * Max(first, latest - windowSec)
               ELSE /\ x.xMax - x.xMin = 2 * windowSec
                    /\ x.xMin + x.xMax = 2 * (first + latest)
            /\ x.xMin <= x.xMax
            /\ x.xMax - x.xMin <= 2 * windowSec]_vars


-----------------------------------------------------------------------------
(* SpecLatest: updateNodes payloads with ids of every kind, next to the 2D store *)

LatestBufLen == 2
LatestSingles ==
    [shape : {"nodes"},
     timestamp : {Some(100000), Some(100300)},
     vec : {<<Some(1), Some(0 - 2)>>}]
LatestCounts == {Some(InitNodeCount + 1)}

\* Ids: in range, at the count, below zero, and with a fraction
Item(id, a) == [id |-> id, amplitude |-> a]
LatestNodes ==
    {<<Item(Whole(0), Some(1)), Item(Whole(InitNodeCount), Some(2))>>,
     <<Item(Whole(1), NaN), Item(Whole(2), Some(4))>>,
     <<Item(Whole(0), Some(1)), Item(Whole(0), Some(2))>>,
     <<Item(Whole(0 - 1), Some(5))>>,
     <<Item([num |-> 3, den |-> 2], Some(3))>>}
LatestUpdates ==
    {[ok |-> FALSE, nodes |-> <<>>]} \cup {[ok |-> TRUE, nodes |-> n] : n \in LatestNodes}

LatestPushSingle ==
    /\ \E p \in LatestSingles : pushGraphSamples(p) /\ Within(LatestBufLen, MaxIntervals)
    /\ UNCHANGED <<producer, pages>>

LatestSetNodeCount ==
    /\ \E n \in LatestCounts : setNodeCount(n)
    /\ UNCHANGED <<producer, pages>>

LatestUpdate ==
    /\ \E p \in LatestUpdates : updateNodes(p)
    /\ UNCHANGED <<producer, pages>>

NextLatest == LatestPushSingle \/ LatestSetNodeCount \/ LatestUpdate \/ Tick

SpecLatest == Init /\ [][NextLatest]_vars

\* The entries of payload p that the claim lets write channel c
ValidFor(p, c) ==
    {k \in 1..Len(p.nodes) :
        /\ p.nodes[k].id = Whole(c)
        /\ IsFinite(p.nodes[k].amplitude)}

\* C37 (as claimed): an updateNodes call with an array of entries gives
\* channel c the amplitude of the last entry whose id is the integer c and
\* whose amplitude is finite, for every c below the channel count, leaves
\* the latest amplitude of every channel without such an entry as it was,
\* and changes nothing of the 2D store.
C37_SetsValidEntriesOnly ==
    [][\A p \in LatestUpdates :
          (p.ok /\ updateNodes(p)) =>
             /\ \A c \in 0..(nodeCount3D - 1) :
                   latestAmplitudes'[c + 1] =
                      IF ValidFor(p, c) # {}
                      THEN Val(p.nodes[SetMax(ValidFor(p, c))].amplitude)
                      ELSE latestAmplitudes[c + 1]
             /\ UNCHANGED vars2D]_vars


-----------------------------------------------------------------------------
(* The channel dialog and channels created while it is open *)

\* C38 (as claimed): when the OK handler takes a selection over, each channel
\* listed in the dialog becomes visible iff its box is checked, and each
\* channel created after the dialog was opened keeps its visibility, both
\* in the visible set and in its row.
C38_ConfirmKeepsNewChannels ==
    [][(modalOkClick /\ modal.checked # {}) =>
          \A i \in 0..(nodeCount - 1) :
             IF i < modal.count
             THEN i \in visibleSet' <=> i \in modal.checked
             ELSE /\ i \in visibleSet' <=> i \in visibleSet
                  /\ rowsEls'[i + 1] = rowsEls[i + 1]]_vars


-----------------------------------------------------------------------------
(* SpecSearch: the search page under searches, responses, timers and time *)

MaxSearches == 2
SearchTick == 750
MaxLatency == 750

SearchFrame == UNCHANGED <<progVars, producer, upload>>

\* The operator starts a search (line 176-197)
SearchStarts ==
    /\ Len(search.calls) < MaxSearches
    /\ performSearchWithRetry
    /\ SearchFrame

SearchSettles ==
    /\ \E k \in 1..Len(search.calls), r \in Responses : searchSettles(k, r)
    /\ SearchFrame

SearchTimer ==
    /\ \E k \in 1..Len(search.calls) : searchTimer(k)
    /\ SearchFrame

\* SearchTick ms pass while a call waits for its timer, or for a response
\* that is younger than MaxLatency
SearchTime ==
    /\ \E k \in 1..Len(search.calls) :
          LET c == search.calls[k]
          IN \/ c.pc = "sleep" /\ c.timer > 0
             \/ c.pc = "fetch" /\ c.flight < MaxLatency
    /\ search' = [search EXCEPT !.calls =
                    [k \in 1..Len(search.calls) |->
                       LET c == search.calls[k]
                       IN CASE c.pc = "sleep" ->
                                 [c EXCEPT !.timer = Max(@ - SearchTick, 0),
                                           !.waited = Min(@ + SearchTick, interval)]
                            [] c.pc = "fetch" ->
                                 [c EXCEPT !.flight = Min(@ + SearchTick, MaxLatency)]
                            [] OTHER -> c]]
    /\ SearchFrame

NextSearch == SearchStarts \/ SearchSettles \/ SearchTimer \/ SearchTime

SpecSearch == Init /\ [][NextSearch]_vars

\* Every request settles, due timers fire and time passes
SpecSearchFair ==
    SpecSearch /\ WF_vars(SearchSettles) /\ WF_vars(SearchTimer) /\ WF_vars(SearchTime)

-----------------------------------------------------------------------------
(* SpecUpload: the upload page under submits, the upload and status polls *)

MaxUploads == 2
MaxPolls == 2

Files == {None} \cup {Some([pptx |-> p, mb |-> m]) :
                        p \in BOOLEAN, m \in {1, LargeFileMB + 10, MaxFileMB + 100}}
StatusData ==
    {[is_processing |-> TRUE, stage |-> "translating"],
     [is_processing |-> FALSE, stage |-> "idle"],
     [is_processing |-> FALSE, stage |-> "completed"],
     [is_processing |-> FALSE, stage |-> "error"]}

UploadFrame == UNCHANGED <<progVars, producer, search>>

\* The operator submits the form; a disabled button submits nothing
UploadSubmit ==
    /\ ~upload.disabled /\ upload.xhrs < MaxUploads
    /\ \E file \in Files, confirmed \in BOOLEAN : submit(file, confirmed)
    /\ UploadFrame

UploadProgress == (\E phase \in {"upload", "download"} : xhrProgress(phase)) /\ UploadFrame

UploadLoad == (\E status \in {200, 500} : xhrLoad(status)) /\ UploadFrame

UploadFails == (\E kind \in {"network", "timeout"} : xhrFails(kind)) /\ UploadFrame

UploadCheckStatus == upload.polls < MaxPolls /\ checkStatus /\ UploadFrame

UploadStatusSettles == (\E data \in StatusData : statusSettles(data)) /\ UploadFrame

UploadStatusFails == statusFails /\ UploadFrame

NextUpload ==
    \/ UploadSubmit
    \/ UploadProgress
    \/ UploadLoad
    \/ UploadFails
    \/ UploadCheckStatus
    \/ UploadStatusSettles
    \/ UploadStatusFails

SpecUpload == Init /\ [][NextUpload]_vars

\* C40 (as claimed): while an upload is in flight the button is disabled,
\* so there is never more than one upload in flight.
C40_DisabledWhileUploading ==
    /\ upload.xhrs > 0 => upload.disabled
    /\ upload.xhrs <= 1

=============================================================================
